---------------------------- MODULE Spec2Model ----------------------------
(***************************************************************************)
(* A model of grey6502, a MOS 6502 emulator (src/src/cpu.rs,               *)
(* src/src/instructions.rs, src/src/main.rs).                              *)
(*                                                                         *)
(* The processor is the record `cpu`, with the fields of `struct CPU`      *)
(* (registers, stack, memory) and one more, `panicked`, which records that *)
(* the thread has panicked (an index out of bounds, an arithmetic overflow *)
(* in a build with overflow checks, an unknown opcode).  Every operation   *)
(* of the program is an operator from a processor record to a processor    *)
(* record (and a returned value, where the Rust function returns one); an  *)
(* operation applied to a panicked processor does nothing.                 *)
(*                                                                         *)
(* The two arrays are kept sparsely: `memory` holds the cells that differ  *)
(* from the filler byte 0xEA that CPU::new writes everywhere, `stack` the  *)
(* cells that differ from 0.  A cell that is absent holds the filler.      *)
(* Memory cells are i16 in the source; every write the program makes is of *)
(* a u8, so cells hold 0..255.                                             *)
(*                                                                         *)
(* `accesses` is the list of the indexings of `memory` that the operation  *)
(* in progress has made, each [kind, address]: kind is "read" or "write",  *)
(* or "print" for a read whose value is only printed.  It is written by    *)
(* the accessors and read by no operation.                                 *)
(*                                                                         *)
(* `locked` is the state of the mutex around the memory, TRUE while a      *)
(* guard is alive, and `blocked` records that the thread called lock()     *)
(* while it held the guard.                                                *)
(***************************************************************************)
EXTENDS Integers, Sequences, FiniteSets, TLC

VARIABLES
    cpu,              \* the processor: struct CPU, and whether it panicked
    hist,             \* the operations run so far: each one's name, arguments,
                      \* result and the processor as it was before it
    overflow_checks   \* the build: TRUE panics on +,- overflow, FALSE wraps

vars == <<cpu, hist, overflow_checks>>

(***************************************************************************)
(* Program constants.                                                      *)
(***************************************************************************)
MemLen == 65535
StackLen == 255
Filler == 234
StackFiller == 0

(***************************************************************************)
(* Bounds of the model.                                                    *)
(***************************************************************************)
MaxSteps == 4
MaxCalls == 2
MaxConversions == 2
MaxPcCalls == 4
MaxStackCalls == 4

Byte == 0..255
Word == 0..65535

(***************************************************************************)
(* Rust's integer operators on unsigned values.                            *)
(***************************************************************************)
RECURSIVE BitAnd(_, _)
BitAnd(a, b) ==
    IF a = 0 \/ b = 0 THEN 0
    ELSE ((a % 2) * (b % 2)) + (2 * BitAnd(a \div 2, b \div 2))

RECURSIVE BitOr(_, _)
BitOr(a, b) ==
    IF a = 0 THEN b
    ELSE IF b = 0 THEN a
    ELSE (IF a % 2 = 1 \/ b % 2 = 1 THEN 1 ELSE 0) + (2 * BitOr(a \div 2, b \div 2))

RECURSIVE BitXor(_, _)
BitXor(a, b) ==
    IF a = 0 THEN b
    ELSE IF b = 0 THEN a
    ELSE ((a + b) % 2) + (2 * BitXor(a \div 2, b \div 2))

\* (v as u16) << 8
Shl8(v) == (v * 256) % 65536

\* bool as u8
BoolToU8(b) == IF b THEN 1 ELSE 0

\* u8::wrapping_add, u8::wrapping_sub, u16::wrapping_add, u16::wrapping_sub
wrapping_add8(a, b) == (a + b) % 256
wrapping_sub8(a, b) == (a - b + 256) % 256
wrapping_add16(a, b) == (a + b) % 65536
wrapping_sub16(a, b) == (a - b + 65536) % 65536

\* u8::overflowing_add, u8::overflowing_sub: the wrapped result and whether
\* the exact result was out of 0..255
overflowing_add(a, b) == [res |-> (a + b) % 256, overflowed |-> a + b > 255]
overflowing_sub(a, b) == [res |-> (a - b + 256) % 256, overflowed |-> a < b]

\* u8::overflowing_shl(1), u8::overflowing_shr(1): the flag says whether the
\* shift amount (1) was at least the width (8), never the bit shifted out
overflowing_shl(a) == [res |-> (a * 2) % 256, overflowed |-> FALSE]
overflowing_shr(a) == [res |-> a \div 2, overflowed |-> FALSE]

\* u8::rotate_left(1), u8::rotate_right(1)
rotate_left(a) == ((a * 2) % 256) + (a \div 128)
rotate_right(a) == (a \div 2) + ((a % 2) * 128)

(***************************************************************************)
(* StatRegister and its conversions (cpu.rs).  In Rust `byte & 0x2 == 1`   *)
(* is `(byte & 0x2) == 1`.                                                 *)
(***************************************************************************)
FlagNames == {"negative", "overflow", "ignored", "sbreak", "decimal",
              "interrupt", "zero", "carry"}

StatRegister == [FlagNames -> BOOLEAN]

StatRegister_from(byte) ==
    [negative  |-> BitAnd(byte, 1) = 1,
     overflow  |-> BitAnd(byte, 2) = 1,
     ignored   |-> BitAnd(byte, 4) = 1,
     sbreak    |-> BitAnd(byte, 8) = 1,
     decimal   |-> BitAnd(byte, 16) = 1,
     interrupt |-> BitAnd(byte, 32) = 1,
     zero      |-> BitAnd(byte, 64) = 1,
     carry     |-> BitAnd(byte, 128) = 1]

u8_from(statreg) ==
    BitOr(BoolToU8(statreg.negative) * 128,
    BitOr(BoolToU8(statreg.overflow) * 64,
    BitOr(BoolToU8(statreg.ignored) * 32,
    BitOr(BoolToU8(statreg.sbreak) * 16,
    BitOr(BoolToU8(statreg.decimal) * 8,
    BitOr(BoolToU8(statreg.interrupt) * 4,
    BitOr(BoolToU8(statreg.zero) * 2,
          BoolToU8(statreg.carry))))))))

(***************************************************************************)
(* Registers (cpu.rs).                                                     *)
(***************************************************************************)
\* The registers of a 6502 after reset, stack pointer at 0xFF, for comparison
Registers_new_reset ==
    [pc |-> 0, ac |-> 0, x |-> 0, y |-> 0, sr |-> StatRegister_from(0), sp |-> 255]

Registers_new ==
    [pc |-> 0, ac |-> 0, x |-> 0, y |-> 0, sr |-> StatRegister_from(0), sp |-> 0]

\* The empty sparse array.
NoCells == [k \in {} |-> 0]

CPU_new ==
    [memory    |-> NoCells,
     stack     |-> NoCells,
     registers |-> Registers_new,
     panicked  |-> FALSE,
     accesses  |-> << >>,
     locked    |-> FALSE,
     blocked   |-> FALSE]

\* memory[address] is evaluated, for `kind`
Access(c, kind, address) ==
    [c EXCEPT !.accesses = Append(@, [kind |-> kind, address |-> address])]

\* The last access was made for a println! only.
Printed(c) ==
    IF c.accesses = << >> THEN c
    ELSE [c EXCEPT !.accesses[Len(c.accesses)].kind = "print"]

\* thread 'main' panicked
panic(c) == [c EXCEPT !.panicked = TRUE]

\* The mutex of `memory: Arc<Mutex<..>>`, which one thread uses: `locked`
\* says that a guard is alive.  Mutex::lock called by the thread that holds
\* the guard does not return (it deadlocks or panics, std leaves open
\* which): the thread runs nothing more, which `panicked` stands for in
\* every operation, and `blocked` records that this was the reason.
lock(c) ==
    IF c.panicked THEN c
    ELSE IF c.locked THEN [c EXCEPT !.blocked = TRUE, !.panicked = TRUE]
    ELSE [c EXCEPT !.locked = TRUE]

\* drop(memory), and the drop of the guard when a panic unwinds its scope
unlock(c) == IF c.blocked THEN c ELSE [c EXCEPT !.locked = FALSE]

\* A sparse array's cell, and the array with one cell written.
Cell(arr, fill, i) == IF i \in DOMAIN arr THEN arr[i] ELSE fill

Store(arr, fill, i, v) ==
    IF v = fill
    THEN [k \in (DOMAIN arr) \ {i} |-> arr[k]]
    ELSE [k \in (DOMAIN arr) \cup {i} |-> IF k = i THEN v ELSE arr[k]]

\* memory[i] and stack[i] for an index in bounds
Mem(c, i) == Cell(c.memory, Filler, i)
Stk(c, i) == Cell(c.stack, StackFiller, i)

\* increment_pc with u16::saturating_add in place of wrapping_add
increment_pc_saturating(c) ==
    IF c.panicked THEN c
    ELSE [c EXCEPT !.registers.pc = IF @ = 65535 THEN 65535 ELSE @ + 1]

increment_pc(c) ==
    IF c.panicked THEN c
    ELSE [c EXCEPT !.registers.pc = wrapping_add16(@, 1)]

increment_pc_by(c, amount) ==
    IF c.panicked THEN c
    ELSE [c EXCEPT !.registers.pc = wrapping_add16(@, amount)]

decrement_pc(c) ==
    IF c.panicked THEN c
    ELSE [c EXCEPT !.registers.pc = wrapping_sub16(@, 1)]

(***************************************************************************)
(* The stack and the memory accessors (cpu.rs).  An operation that returns *)
(* a value yields [cpu, out].                                              *)
(***************************************************************************)
\* push_to_stack storing into page one of the memory, at 0x0100 + sp, as
\* the 6502's stack lies, in place of the array of its own
push_to_stack_in_memory(c, value) ==
    IF c.panicked THEN c
    ELSE LET sp == IF c.registers.sp = StackLen THEN 0 ELSE c.registers.sp
         IN  [c EXCEPT !.memory = Store(@, Filler, 256 + sp, value),
                       !.registers.sp = wrapping_add8(sp, 1)]

push_to_stack(c, value) ==
    IF c.panicked THEN c
    ELSE LET sp == IF c.registers.sp = StackLen THEN 0 ELSE c.registers.sp
         IN  [c EXCEPT !.stack = Store(@, StackFiller, sp, value),
                       !.registers.sp = wrapping_add8(sp, 1)]

pull_from_stack(c) ==
    IF c.panicked THEN [cpu |-> c, out |-> 0]
    ELSE LET sp0 == IF c.registers.sp = 0 THEN StackLen % 256 ELSE c.registers.sp
             sp1 == wrapping_sub8(sp0, 1)
             idx == wrapping_add8(sp1, 1)
             c1  == [c EXCEPT !.registers.sp = sp1]
         IN  IF idx >= StackLen
             THEN [cpu |-> panic(c1), out |-> 0]
             ELSE [cpu |-> c1, out |-> Stk(c1, idx)]

set_memory_at_address(c, address, byte) ==
    IF lock(c).panicked THEN lock(c)
    ELSE LET c1 == Access(lock(c), "write", address)
         IN  IF address >= MemLen THEN unlock(panic(c1))
             ELSE unlock([c1 EXCEPT !.memory = Store(@, Filler, address, byte)])

get_memory_at_address(c, address) ==
    IF lock(c).panicked THEN [cpu |-> lock(c), out |-> 0]
    ELSE LET c1 == IF MemLen = address THEN increment_pc(lock(c)) ELSE lock(c)
             a  == IF MemLen = address THEN c1.registers.pc ELSE address
             c2 == Access(c1, "read", a)
         IN  IF a >= MemLen
             THEN [cpu |-> unlock(panic(c2)), out |-> 0]
             ELSE [cpu |-> unlock(c2), out |-> Mem(c2, a)]

get_umemory_at_address(c, address) ==
    LET r == get_memory_at_address(c, address)
    IN  [cpu |-> r.cpu, out |-> r.out % 256]

(***************************************************************************)
(* Notation, no part of the program: Bind(e, LAMBDA v : rest) is `rest`    *)
(* with v standing for the value of e, the way the statements after        *)
(* `let v = e;` see it.                                                    *)
(***************************************************************************)
Bind(v, rest(_)) == rest(v)

(***************************************************************************)
(* Operand fetches, as the instructions and the resolver write them out.   *)
(***************************************************************************)
\* let address = cpu.registers.increment_pc();
\* let memory = cpu.get_memory_at_address(address);
\* yields [cpu, out, address]
FetchNext(c) ==
    Bind(increment_pc(c), LAMBDA c1 :
    Bind(get_memory_at_address(c1, c1.registers.pc), LAMBDA r :
    [cpu |-> r.cpu, out |-> r.out, address |-> c1.registers.pc]))

\* the same twice: the two bytes after the opcode, yields [cpu, f, s]
FetchTwo(c) ==
    Bind(FetchNext(c), LAMBDA r1 :
    Bind(FetchNext(r1.cpu), LAMBDA r2 :
    [cpu |-> r2.cpu, f |-> r1.out, s |-> r2.out]))

(***************************************************************************)
(* enum Mode and its resolver (instructions.rs).  The address computation  *)
(* is written out once in get_memory and once in set_memory, and so it is  *)
(* here.                                                                   *)
(***************************************************************************)
Modes == {"A", "Absolute", "AbsoluteX", "AbsoluteY", "Immediate", "Implied",
          "Indirect", "IndirectX", "IndirectY", "Relative", "Zeropage",
          "ZeropageX", "ZeropageY"}

\* first as u16 | (second as u16) << 8
Joined(w) == BitOr(w.f, Shl8(w.s))

get_memory_end_address(c, mode) ==
    CASE mode = "Immediate" ->
            Bind(increment_pc(c), LAMBDA c1 :
            [cpu |-> c1, out |-> c1.registers.pc])
      [] mode = "Zeropage" ->
            Bind(FetchTwo(c), LAMBDA w :
            [cpu |-> w.cpu, out |-> BitAnd(Joined(w), 255)])
      [] mode = "ZeropageX" ->
            Bind(FetchTwo(c), LAMBDA w :
            [cpu |-> w.cpu,
             out |-> BitAnd(wrapping_add16(Joined(w), w.cpu.registers.x), 255)])
      [] mode = "ZeropageY" ->
            Bind(FetchTwo(c), LAMBDA w :
            [cpu |-> w.cpu,
             out |-> BitAnd(wrapping_add16(Joined(w), w.cpu.registers.y), 255)])
      [] mode = "Absolute" ->
            Bind(FetchTwo(c), LAMBDA w :
            [cpu |-> w.cpu, out |-> Joined(w)])
      [] mode = "AbsoluteX" ->
            Bind(FetchTwo(c), LAMBDA w :
            [cpu |-> w.cpu, out |-> wrapping_add16(Joined(w), w.cpu.registers.x)])
      [] mode = "AbsoluteY" ->
            Bind(FetchTwo(c), LAMBDA w :
            [cpu |-> w.cpu, out |-> wrapping_add16(Joined(w), w.cpu.registers.y)])
      [] mode = "Indirect" ->
            Bind(FetchTwo(c), LAMBDA w :
            [cpu |-> w.cpu, out |-> Joined(w)])
      [] mode = "IndirectX" ->
            Bind(FetchTwo(c), LAMBDA w :
            [cpu |-> w.cpu, out |-> wrapping_add16(Joined(w), w.cpu.registers.x)])
      [] mode = "IndirectY" ->
            Bind(FetchTwo(c), LAMBDA w :
            [cpu |-> w.cpu, out |-> wrapping_add16(Joined(w), w.cpu.registers.y)])
      [] OTHER -> [cpu |-> c, out |-> 0]

Mode_get_memory(c, mode) ==
    Bind(get_memory_end_address(c, mode), LAMBDA e :
    Bind(get_memory_at_address(e.cpu, e.out), LAMBDA r :
    [cpu |-> r.cpu, out |-> r.out % 256]))

set_memory_end_address(c, mode) ==
    CASE mode = "Immediate" ->
            Bind(increment_pc(c), LAMBDA c1 :
            [cpu |-> c1, out |-> c1.registers.pc])
      [] mode = "Zeropage" ->
            Bind(FetchTwo(c), LAMBDA w :
            [cpu |-> w.cpu, out |-> BitAnd(Joined(w), 255)])
      [] mode = "ZeropageX" ->
            Bind(FetchTwo(c), LAMBDA w :
            [cpu |-> w.cpu,
             out |-> BitAnd(wrapping_add16(Joined(w), w.cpu.registers.x), 255)])
      [] mode = "ZeropageY" ->
            Bind(FetchTwo(c), LAMBDA w :
            [cpu |-> w.cpu,
             out |-> BitAnd(wrapping_add16(Joined(w), w.cpu.registers.y), 255)])
      [] mode = "Absolute" ->
            Bind(FetchTwo(c), LAMBDA w :
            [cpu |-> w.cpu, out |-> Joined(w)])
      [] mode = "AbsoluteX" ->
            Bind(FetchTwo(c), LAMBDA w :
            [cpu |-> w.cpu, out |-> wrapping_add16(Joined(w), w.cpu.registers.x)])
      [] mode = "AbsoluteY" ->
            Bind(FetchTwo(c), LAMBDA w :
            [cpu |-> w.cpu, out |-> wrapping_add16(Joined(w), w.cpu.registers.y)])
      [] mode = "Indirect" ->
            Bind(FetchTwo(c), LAMBDA w :
            [cpu |-> w.cpu, out |-> Joined(w)])
      [] mode = "IndirectX" ->
            Bind(FetchTwo(c), LAMBDA w :
            [cpu |-> w.cpu, out |-> wrapping_add16(Joined(w), w.cpu.registers.x)])
      [] mode = "IndirectY" ->
            Bind(FetchTwo(c), LAMBDA w :
            [cpu |-> w.cpu, out |-> wrapping_add16(Joined(w), w.cpu.registers.y)])
      [] OTHER -> [cpu |-> c, out |-> 0]

\* sr.negative and sr.zero of `byte`, as Mode::set_memory sets them
SetByteFlags(c, byte) ==
    IF c.panicked THEN c
    ELSE [c EXCEPT !.registers.sr.negative = BitAnd(byte, 128) = 128,
                   !.registers.sr.zero = (byte = 0)]

Mode_set_memory(c, mode, byte) ==
    Bind(set_memory_end_address(c, mode), LAMBDA e :
    set_memory_at_address(SetByteFlags(e.cpu, byte), e.out, byte))

(***************************************************************************)
(* The instructions (instructions.rs).  Each is the `execute` of its       *)
(* struct: it yields [cpu, ret], ret being the returned bool.  A statement *)
(* that follows a call which panicked does not run (After).                *)
(***************************************************************************)
Ret(c, b) == [cpu |-> c, ret |-> b]

After(c, c2) == IF c.panicked THEN c ELSE c2

\* registers.pc = first as u16 | (second as u16) << 8
SetPc(c, first, second) ==
    After(c, [c EXCEPT !.registers.pc = BitOr(first, Shl8(second))])

\* registers.sr = StatRegister::from(byte)
SetSr(c, byte) ==
    After(c, [c EXCEPT !.registers.sr = StatRegister_from(byte)])

BRK(c) ==
    Bind(increment_pc_by(c, 2), LAMBDA c1 :
    Bind(push_to_stack(c1, c1.registers.pc \div 256), LAMBDA c2 :
    Bind(push_to_stack(c2, c1.registers.pc % 256), LAMBDA c3 :
    Bind(push_to_stack(c3, u8_from(c3.registers.sr)), LAMBDA c4 :
    Bind(SetSr(c4, BitAnd(u8_from(c4.registers.sr), 4)), LAMBDA c5 :
    Bind(increment_pc(c5), LAMBDA c6 :
    Bind(increment_pc(c6), LAMBDA c7 :
    Bind(get_memory_at_address(c7, c6.registers.pc), LAMBDA r1 :
    Bind(get_memory_at_address(r1.cpu, c7.registers.pc), LAMBDA r2 :
    Ret(SetPc(r2.cpu, r1.out, r2.out), FALSE))))))))))

BPL(c) ==
    Bind(increment_pc(c), LAMBDA c1 :
    IF ~c1.registers.sr.negative
    THEN Bind(get_memory_at_address(c1, c1.registers.pc), LAMBDA r :
         Ret(After(r.cpu,
                   [r.cpu EXCEPT !.registers.pc =
                        wrapping_add16(c1.registers.pc, r.out)]),
             FALSE))
    ELSE Ret(increment_pc(c1), TRUE))

\* self.registers.pc as i16
AsI16(pc) == IF pc >= 32768 THEN pc - 65536 ELSE pc

JSR(c) ==
    IF overflow_checks /\ c.registers.pc + 2 > 65535
    THEN Ret(panic(c), FALSE)
    ELSE Bind(push_to_stack(c, ((c.registers.pc + 2) % 65536) \div 256), LAMBDA c1 :
         Bind(push_to_stack(c1, ((c.registers.pc + 2) % 65536) % 256), LAMBDA c2 :
         Bind(get_memory_at_address(c2, (c.registers.pc + 1) % 65536), LAMBDA r :
         IF r.cpu.panicked THEN Ret(r.cpu, FALSE)
         ELSE IF overflow_checks /\ AsI16(c.registers.pc) + r.out > 32767
         THEN Ret(panic(r.cpu), FALSE)
         ELSE Ret([r.cpu EXCEPT !.registers.pc =
                       (AsI16(c.registers.pc) + r.out + 65536) % 65536],
                  FALSE))))

\* pc - (memory & 0x7F) when bit 7 of memory is set, else pc + memory
Jump(c, memory) ==
    After(c,
          IF BitAnd(memory, 128) = 128
          THEN [c EXCEPT !.registers.pc = wrapping_sub16(@, BitAnd(memory, 127))]
          ELSE [c EXCEPT !.registers.pc = wrapping_add16(@, memory)])

\* BMI, BVC, BVS, BCC, BCS (increment == TRUE) and BNE, BEQ (FALSE): the
\* branch when `condition` holds, else one more increment_pc or none
Branch(c, condition, increment) ==
    Bind(increment_pc(c), LAMBDA c1 :
    IF condition
    THEN Bind(get_memory_at_address(c1, c1.registers.pc), LAMBDA r :
         Ret(Jump(r.cpu, r.out), FALSE))
    ELSE Ret(IF increment THEN increment_pc(c1) ELSE c1, TRUE))

BMI(c) == Branch(c, c.registers.sr.negative, TRUE)
BVC(c) == Branch(c, ~c.registers.sr.overflow, TRUE)
BVS(c) == Branch(c, c.registers.sr.overflow, TRUE)
BCC(c) == Branch(c, ~c.registers.sr.carry, TRUE)
BCS(c) == Branch(c, c.registers.sr.carry, TRUE)
BNE(c) == Branch(c, ~c.registers.sr.zero, FALSE)
BEQ(c) == Branch(c, c.registers.sr.zero, FALSE)

RTI(c) ==
    Bind(pull_from_stack(c), LAMBDA r0 :
    Bind(pull_from_stack(SetSr(r0.cpu, r0.out)), LAMBDA r1 :
    Bind(pull_from_stack(r1.cpu), LAMBDA r2 :
    Ret(SetPc(r2.cpu, r1.out, r2.out), FALSE))))

RTS(c) ==
    Bind(pull_from_stack(c), LAMBDA r1 :
    Bind(pull_from_stack(r1.cpu), LAMBDA r2 :
    Ret(SetPc(r2.cpu, r1.out, r2.out), FALSE)))

(***************************************************************************)
(* The operand of an instruction that decodes its addressing mode inline,  *)
(* by the form its match arm has; yields [cpu, out].  `address` is what    *)
(* increment_pc returned: the address of the byte after the opcode.        *)
(***************************************************************************)
\* memory = get_memory_at_address(address)
ArmImmediate(c) ==
    Bind(FetchNext(c), LAMBDA r :
    [cpu |-> r.cpu, out |-> r.out])

\* memory = get_memory_at_address(address & 0xFF)
ArmAddressLow(c) ==
    Bind(increment_pc(c), LAMBDA c1 :
    get_memory_at_address(c1, BitAnd(c1.registers.pc, 255)))

\* memory = get_memory_at_address(address.wrapping_add(index) & 0xFF)
ArmAddressPlusLow(c, index) ==
    Bind(increment_pc(c), LAMBDA c1 :
    get_memory_at_address(c1, BitAnd(wrapping_add16(c1.registers.pc, index), 255)))

\* memory = get_memory_at_address((address & 0xFF).wrapping_add(index))
ArmAddressLowPlus(c, index) ==
    Bind(increment_pc(c), LAMBDA c1 :
    get_memory_at_address(c1, wrapping_add16(BitAnd(c1.registers.pc, 255), index)))

\* memory = get_memory_at_address((first | second << 8).wrapping_add(index))
ArmOr(c, index) ==
    Bind(FetchTwo(c), LAMBDA w :
    get_memory_at_address(w.cpu, wrapping_add16(BitOr(w.f, Shl8(w.s)), index)))

\* memory = get_memory_at_address((first & second << 8).wrapping_add(index))
ArmAnd(c, index) ==
    Bind(FetchTwo(c), LAMBDA w :
    get_memory_at_address(w.cpu, wrapping_add16(BitAnd(w.f, Shl8(w.s)), index)))

\* address = get_memory_at_address(og_address.wrapping_add(index) & 0xFF);
\* memory = get_memory_at_address(address as u16)
ArmPointerLow(c, index) ==
    Bind(increment_pc(c), LAMBDA c1 :
    Bind(get_memory_at_address(c1, BitAnd(wrapping_add16(c1.registers.pc, index), 255)),
         LAMBDA r :
    get_memory_at_address(r.cpu, r.out)))

\* address = get_memory_at_address(og_address.wrapping_add(index));
\* memory = get_memory_at_address(address as u16)
ArmPointer(c, index) ==
    Bind(increment_pc(c), LAMBDA c1 :
    Bind(get_memory_at_address(c1, wrapping_add16(c1.registers.pc, index)), LAMBDA r :
    get_memory_at_address(r.cpu, r.out)))

\* no arm: `_ => {}`, memory keeps its initial 0x00
ArmNone(c) == [cpu |-> c, out |-> 0]

LDY(c, opcode) ==
    Bind(CASE opcode = 160 -> ArmImmediate(c)
           [] opcode = 164 -> ArmAddressLow(c)
           [] opcode = 180 -> ArmAddressPlusLow(c, c.registers.x)
           [] opcode = 172 -> ArmOr(c, 0)
           [] opcode = 188 -> ArmOr(c, c.registers.x)
           [] OTHER -> ArmNone(c), LAMBDA m :
    Ret(After(m.cpu,
              [m.cpu EXCEPT !.registers.y = m.out % 256,
                            !.registers.sr.negative = (BitAnd(m.out % 256, 128) = 1),
                            !.registers.sr.zero = (m.out % 256 = 0)]),
        TRUE))

\* CPY and CPX: `address = increment_pc()` comes before the match, whose arms
\* are for 0xC0, 0xC4 and 0xCC in both
CompareY_operand(c, opcode) ==
    Bind(increment_pc(c), LAMBDA c1 :
    CASE opcode = 192 -> get_memory_at_address(c1, c1.registers.pc)
      [] opcode = 196 -> get_memory_at_address(c1, BitAnd(c1.registers.pc, 255))
      [] opcode = 204 -> ArmOr(c1, 0)
      [] OTHER -> ArmNone(c1))

\* the flags of (result, overflowed) = register.overflowing_sub(memory)
CompareFlags(c, d) ==
    After(c, [c EXCEPT !.registers.sr.negative = (BitAnd(d.res, 128) = 128),
                       !.registers.sr.zero = (d.res = 0),
                       !.registers.sr.carry = d.overflowed])

Compare(c, register, memory) ==
    CompareFlags(c, overflowing_sub(register, memory))

CPY(c, opcode) ==
    Bind(CompareY_operand(c, opcode), LAMBDA m :
    Ret(Compare(m.cpu, m.cpu.registers.y, m.out % 256), TRUE))

CPX(c, opcode) ==
    Bind(CompareY_operand(c, opcode), LAMBDA m :
    Ret(Compare(m.cpu, m.cpu.registers.x, m.out % 256), TRUE))

\* registers.ac = ac, with sr.negative = (ac & 0x80 == 1) and sr.zero
SetAc(c, ac) ==
    After(c, [c EXCEPT !.registers.ac = ac,
                       !.registers.sr.negative = (BitAnd(ac, 128) = 1),
                       !.registers.sr.zero = (ac = 0)])

ORA_operand(c, opcode) ==
    CASE opcode = 9 -> ArmImmediate(c)
      [] opcode = 5 -> ArmAddressLow(c)
      [] opcode = 21 -> ArmAddressPlusLow(c, c.registers.x)
      [] opcode = 13 -> ArmOr(c, 0)
      [] opcode = 29 -> ArmOr(c, c.registers.x)
      [] opcode = 25 -> ArmOr(c, c.registers.y)
      [] opcode = 1 -> ArmPointerLow(c, c.registers.x)
      [] opcode = 17 -> ArmPointerLow(c, c.registers.y)
      [] OTHER -> ArmNone(c)

ORA(c, opcode) ==
    Bind(ORA_operand(c, opcode), LAMBDA m :
    Ret(SetAc(m.cpu, BitOr(m.cpu.registers.ac, m.out % 256)), TRUE))

AND_operand(c, opcode) ==
    CASE opcode = 41 -> ArmImmediate(c)
      [] opcode = 37 -> ArmAddressLow(c)
      [] opcode = 53 -> ArmAddressPlusLow(c, c.registers.x)
      [] opcode = 45 -> ArmOr(c, 0)
      [] opcode = 61 -> ArmOr(c, c.registers.x)
      [] opcode = 57 -> ArmOr(c, c.registers.y)
      [] opcode = 33 -> ArmPointerLow(c, c.registers.x)
      [] opcode = 50 -> ArmPointerLow(c, c.registers.y)
      [] OTHER -> ArmNone(c)

AND(c, opcode) ==
    Bind(AND_operand(c, opcode), LAMBDA m :
    Ret(SetAc(m.cpu, BitAnd(m.cpu.registers.ac, m.out % 256)), TRUE))

EOR_operand(c, opcode) ==
    CASE opcode = 73 -> ArmImmediate(c)
      [] opcode = 69 -> ArmAddressLow(c)
      [] opcode = 85 -> ArmAddressPlusLow(c, c.registers.x)
      [] opcode = 77 -> ArmOr(c, 0)
      [] opcode = 93 -> ArmOr(c, c.registers.x)
      [] opcode = 89 -> ArmOr(c, c.registers.y)
      [] opcode = 65 -> ArmPointerLow(c, c.registers.x)
      [] opcode = 81 -> ArmPointerLow(c, c.registers.y)
      [] OTHER -> ArmNone(c)

EOR(c, opcode) ==
    Bind(EOR_operand(c, opcode), LAMBDA m :
    Ret(SetAc(m.cpu, BitXor(m.cpu.registers.ac, m.out % 256)), TRUE))

\* registers.ac = b.0 after the two overflowing operations a and b, with
\* sr.carry, sr.negative, sr.zero and sr.overflow
SetAcWithCarry(c, a, b) ==
    After(c, [c EXCEPT !.registers.ac = b.res,
                       !.registers.sr.carry = (a.overflowed /\ b.overflowed),
                       !.registers.sr.negative = (BitAnd(b.res, 128) = 1),
                       !.registers.sr.zero = (b.res = 0),
                       !.registers.sr.overflow = (a.overflowed /\ b.overflowed)])

ADC_operand(c, opcode) ==
    CASE opcode = 105 -> ArmImmediate(c)
      [] opcode = 101 -> ArmAddressLow(c)
      [] opcode = 117 -> ArmAddressPlusLow(c, c.registers.x)
      [] opcode = 109 -> ArmOr(c, 0)
      [] opcode = 125 -> ArmOr(c, c.registers.x)
      [] opcode = 121 -> ArmOr(c, c.registers.y)
      [] opcode = 97 -> ArmPointerLow(c, c.registers.x)
      [] opcode = 113 -> ArmPointerLow(c, c.registers.y)
      [] OTHER -> ArmNone(c)

ADC(c, opcode) ==
    Bind(ADC_operand(c, opcode), LAMBDA m :
    Bind(overflowing_add(m.cpu.registers.ac, m.out % 256), LAMBDA a :
    Ret(SetAcWithCarry(m.cpu, a,
                       overflowing_add(a.res, BoolToU8(m.cpu.registers.sr.carry))),
        TRUE)))

SBC_operand(c, opcode) ==
    CASE opcode = 233 -> ArmImmediate(c)
      [] opcode = 229 -> ArmAddressLow(c)
      [] opcode = 245 -> ArmAddressPlusLow(c, c.registers.x)
      [] opcode = 237 -> ArmOr(c, 0)
      [] opcode = 253 -> ArmOr(c, c.registers.x)
      [] opcode = 249 -> ArmOr(c, c.registers.y)
      [] opcode = 225 -> ArmPointerLow(c, c.registers.x)
      [] opcode = 241 -> ArmPointerLow(c, c.registers.y)
      [] OTHER -> ArmNone(c)

SBC(c, opcode) ==
    Bind(SBC_operand(c, opcode), LAMBDA m :
    Bind(overflowing_sub(m.cpu.registers.ac, m.out % 256), LAMBDA a :
    Ret(SetAcWithCarry(m.cpu, a,
                       overflowing_sub(a.res, BoolToU8(m.cpu.registers.sr.carry))),
        TRUE)))

\* cpu.set_memory_at_address(address, cpu.registers.ac)
StoreAc(c, address) == set_memory_at_address(c, address, c.registers.ac)

STA(c, opcode) ==
    Ret(CASE opcode = 133 ->
                Bind(increment_pc(c), LAMBDA c1 :
                StoreAc(c1, BitAnd(c1.registers.pc, 255)))
          [] opcode = 149 ->
                Bind(increment_pc(c), LAMBDA c1 :
                StoreAc(c1, wrapping_add16(BitAnd(c1.registers.pc, 255),
                                           c1.registers.x)))
          [] opcode = 141 ->
                Bind(FetchTwo(c), LAMBDA w :
                StoreAc(w.cpu, BitAnd(w.f, Shl8(w.s))))
          [] opcode = 157 ->
                Bind(FetchTwo(c), LAMBDA w :
                StoreAc(w.cpu, wrapping_add16(BitAnd(w.f, Shl8(w.s)),
                                              w.cpu.registers.x)))
          [] opcode = 153 ->
                Bind(FetchTwo(c), LAMBDA w :
                StoreAc(w.cpu, wrapping_add16(BitAnd(w.f, Shl8(w.s)),
                                              w.cpu.registers.y)))
          [] opcode = 129 ->
                Bind(increment_pc(c), LAMBDA c1 :
                Bind(get_memory_at_address(
                         c1, wrapping_add16(c1.registers.pc, c1.registers.x)),
                     LAMBDA r :
                StoreAc(r.cpu, r.out)))
          [] opcode = 145 ->
                Bind(increment_pc(c), LAMBDA c1 :
                Bind(get_memory_at_address(
                         c1, wrapping_add16(c1.registers.pc, c1.registers.y)),
                     LAMBDA r :
                StoreAc(r.cpu, r.out)))
          [] OTHER -> c,
        TRUE)

LDA_operand(c, opcode) ==
    CASE opcode = 169 -> ArmImmediate(c)
      [] opcode = 165 -> ArmAddressLow(c)
      [] opcode = 181 -> ArmAddressLowPlus(c, c.registers.x)
      [] opcode = 173 -> ArmAnd(c, 0)
      [] opcode = 189 -> ArmAnd(c, c.registers.x)
      [] opcode = 185 -> ArmAnd(c, c.registers.y)
      [] opcode = 161 -> ArmPointer(c, c.registers.x)
      [] opcode = 177 -> ArmPointer(c, c.registers.y)
      [] OTHER -> ArmNone(c)

\* The flags Negative and Zero from a register value: `v & 0x80 == 0x80`,
\* `v == 0`
NegativeZero(c, v) ==
    [c EXCEPT !.registers.sr.negative = (BitAnd(v, 128) = 128),
              !.registers.sr.zero = (v = 0)]

LDA(c, opcode) ==
    Bind(LDA_operand(c, opcode), LAMBDA m :
    Ret(After(m.cpu,
              NegativeZero([m.cpu EXCEPT !.registers.ac = m.out % 256], m.out % 256)),
        TRUE))

\* `address = increment_pc()` comes before the match
CMP_operand(c, opcode) ==
    Bind(increment_pc(c), LAMBDA c1 :
    CASE opcode = 201 -> get_memory_at_address(c1, c1.registers.pc)
      [] opcode = 197 -> get_memory_at_address(c1, BitAnd(c1.registers.pc, 255))
      [] opcode = 213 ->
            get_memory_at_address(c1, wrapping_add16(BitAnd(c1.registers.pc, 255),
                                                     c1.registers.x))
      [] opcode = 205 -> ArmOr(c1, 0)
      [] opcode = 221 -> ArmOr(c1, c1.registers.x)
      [] opcode = 217 -> ArmOr(c1, c1.registers.y)
      [] opcode = 193 -> ArmPointer(c1, c1.registers.x)
      [] opcode = 209 -> ArmPointer(c1, c1.registers.y)
      [] OTHER -> ArmNone(c1))

CMP(c, opcode) ==
    Bind(CMP_operand(c, opcode), LAMBDA m :
    Ret(Compare(m.cpu, m.cpu.registers.ac, m.out % 256), TRUE))

\* LDX assigns x inside each arm: `_ => {}` leaves it as it was
LDX_operand(c, opcode) ==
    CASE opcode = 162 -> ArmImmediate(c)
      [] opcode = 166 -> ArmAddressLow(c)
      [] opcode = 182 -> ArmAddressLowPlus(c, c.registers.x)
      [] opcode = 174 -> ArmAnd(c, 0)
      [] opcode = 190 -> ArmAnd(c, c.registers.y)
      [] OTHER -> [cpu |-> c, out |-> c.registers.x]

LDX(c, opcode) ==
    Bind(LDX_operand(c, opcode), LAMBDA m :
    Ret(After(m.cpu,
              NegativeZero([m.cpu EXCEPT !.registers.x = m.out % 256], m.out % 256)),
        TRUE))

\* sr.negative, sr.overflow and sr.zero as BIT sets them from `memory`
BitFlags(c, memory) ==
    After(c, [c EXCEPT !.registers.sr.negative = (BitAnd(memory, 64) = 64),
                       !.registers.sr.overflow = (BitAnd(memory, 32) = 32),
                       !.registers.sr.zero = (BitAnd(c.registers.ac, memory) = 0)])

BIT(c, opcode) ==
    Bind(increment_pc(c), LAMBDA c1 :
    Bind(CASE opcode = 36 -> get_memory_at_address(c1, BitAnd(c1.registers.pc, 255))
           [] opcode = 44 -> get_memory_at_address(c1, c1.registers.pc)
           [] OTHER -> ArmNone(c1), LAMBDA m :
    Ret(BitFlags(m.cpu, m.out % 256), TRUE)))

STY(c, opcode) ==
    Bind(increment_pc(c), LAMBDA c1 :
    Ret(CASE opcode = 132 ->
                set_memory_at_address(c1, BitAnd(c1.registers.pc, 255), c1.registers.y)
          [] opcode = 148 ->
                set_memory_at_address(
                    c1, BitAnd(wrapping_add16(c1.registers.pc, c1.registers.x), 255),
                    c1.registers.y)
          [] opcode = 140 ->
                set_memory_at_address(c1, c1.registers.pc, c1.registers.y)
          [] OTHER -> c,
        TRUE))

\* registers.ac = res with sr.negative, sr.zero and sr.carry: the accumulator
\* arm of a shift, s being (res, carry)
ShiftAc(c, s) ==
    [c EXCEPT !.registers.ac = s.res,
              !.registers.sr.negative = (BitAnd(s.res, 128) = 128),
              !.registers.sr.zero = (s.res = 0),
              !.registers.sr.carry = s.overflowed]

\* sr.negative and sr.zero from ac, and sr.carry: the end of a shift
ShiftFlags(c, carry) ==
    After(c, [c EXCEPT !.registers.sr.negative = (BitAnd(c.registers.ac, 128) = 128),
                       !.registers.sr.zero = (c.registers.ac = 0),
                       !.registers.sr.carry = carry])

\* let address = cpu.registers.pc - 1; cpu.set_memory_at_address(address, res)
StoreBelowPc(c, res) ==
    IF c.panicked THEN c
    ELSE IF overflow_checks /\ c.registers.pc = 0 THEN panic(c)
    ELSE set_memory_at_address(c, wrapping_sub16(c.registers.pc, 1), res)

\* rotate_left(1) and rotate_right(1), with `carry = false`
rotate_left_no_carry(v) == [res |-> rotate_left(v), overflowed |-> FALSE]
rotate_right_no_carry(v) == [res |-> rotate_right(v), overflowed |-> FALSE]

\* The shift of each of the four instructions.
Shift(shift, v) ==
    CASE shift = "ASL" -> overflowing_shl(v)
      [] shift = "ROL" -> rotate_left_no_carry(v)
      [] shift = "LSR" -> overflowing_shr(v)
      [] shift = "ROR" -> rotate_right_no_carry(v)

\* ASL, ROL, LSR, ROR.  The accumulator arm works on ac; the other arms only
\* read `memory` through the resolver.  The statements after the match run
\* for every arm: they shift `memory` (0x00 after the accumulator arm), write
\* the result at pc - 1 and set the flags from ac.
\* Shift(shift, v) is [res, overflowed]: the result and what Carry is set to.
ShiftRotate(c, opcode, shift, accumulator, zeropage, zeropagex, absolute, absolutex) ==
    Bind(CASE opcode = accumulator ->
                [cpu |-> ShiftAc(c, Shift(shift, c.registers.ac)), out |-> 0]
           [] opcode = zeropage  -> Mode_get_memory(c, "Zeropage")
           [] opcode = zeropagex -> Mode_get_memory(c, "ZeropageX")
           [] opcode = absolute  -> Mode_get_memory(c, "Absolute")
           [] opcode = absolutex -> Mode_get_memory(c, "AbsoluteX")
           [] OTHER -> ArmNone(c), LAMBDA m :
    Bind(Shift(shift, m.out), LAMBDA sh :
    Ret(ShiftFlags(StoreBelowPc(m.cpu, sh.res), sh.overflowed), TRUE)))

ASL(c, opcode) == ShiftRotate(c, opcode, "ASL", 10, 6, 22, 14, 30)
ROL(c, opcode) == ShiftRotate(c, opcode, "ROL", 42, 38, 54, 46, 62)
LSR(c, opcode) == ShiftRotate(c, opcode, "LSR", 74, 70, 86, 78, 94)
ROR(c, opcode) == ShiftRotate(c, opcode, "ROR", 106, 102, 118, 110, 126)

STX(c, opcode) ==
    Bind(CASE opcode = 134 -> Mode_set_memory(c, "Zeropage", c.registers.x)
           [] opcode = 150 -> Mode_set_memory(c, "ZeropageY", c.registers.x)
           [] opcode = 142 -> Mode_set_memory(c, "Absolute", c.registers.x)
           [] OTHER -> c, LAMBDA c1 :
    \* println!("{:04x}", cpu.get_memory_at_address(0x4200))
    Ret(Printed(get_memory_at_address(c1, 16896).cpu), TRUE))

\* memory.wrapping_sub(1) in DEC, memory.wrapping_add(1) in INC
Change(change, v) ==
    CASE change = "DEC" -> wrapping_sub8(v, 1)
      [] change = "INC" -> wrapping_add8(v, 1)

\* One arm of DEC or INC: read through `read`, two decrement_pc, write
\* through `write`
ReadModifyWrite(c, read, write, change) ==
    Bind(Mode_get_memory(c, read), LAMBDA m :
    Mode_set_memory(decrement_pc(decrement_pc(m.cpu)), write, Change(change, m.out)))

DEC(c, opcode) ==
    Ret(CASE opcode = 198 -> ReadModifyWrite(c, "Zeropage", "Zeropage", "DEC")
          [] opcode = 214 -> ReadModifyWrite(c, "ZeropageX", "ZeropageX", "DEC")
          [] opcode = 206 -> ReadModifyWrite(c, "Absolute", "AbsoluteX", "DEC")
          [] opcode = 222 -> ReadModifyWrite(c, "Absolute", "AbsoluteX", "DEC")
          [] OTHER -> c,
        TRUE)

INC(c, opcode) ==
    Ret(CASE opcode = 230 -> ReadModifyWrite(c, "Zeropage", "Zeropage", "INC")
          [] opcode = 246 -> ReadModifyWrite(c, "ZeropageX", "ZeropageX", "INC")
          [] opcode = 238 -> ReadModifyWrite(c, "Absolute", "AbsoluteX", "INC")
          [] opcode = 254 -> ReadModifyWrite(c, "Absolute", "AbsoluteX", "INC")
          [] OTHER -> c,
        TRUE)

PHP(c) == Ret(push_to_stack(c, u8_from(c.registers.sr)), TRUE)
CLC(c) == Ret([c EXCEPT !.registers.sr.carry = FALSE], TRUE)
PLP(c) ==
    Bind(pull_from_stack(c), LAMBDA r :
    Ret(SetSr(r.cpu, r.out), TRUE))
SEC(c) == Ret([c EXCEPT !.registers.sr.carry = TRUE], TRUE)
PHA(c) == Ret(push_to_stack(c, c.registers.ac), TRUE)
CLI(c) == Ret([c EXCEPT !.registers.sr.interrupt = FALSE], TRUE)
PLA(c) ==
    Bind(pull_from_stack(c), LAMBDA r :
    Ret(After(r.cpu, NegativeZero([r.cpu EXCEPT !.registers.ac = r.out], r.out)),
        TRUE))
SEI(c) == Ret([c EXCEPT !.registers.sr.interrupt = TRUE], TRUE)
DEY(c) ==
    Bind(wrapping_sub8(c.registers.y, 1), LAMBDA y :
    Ret(NegativeZero([c EXCEPT !.registers.y = y], y), TRUE))
TYA(c) == Ret(NegativeZero([c EXCEPT !.registers.ac = c.registers.y], c.registers.y), TRUE)
TAY(c) == Ret(NegativeZero([c EXCEPT !.registers.y = c.registers.ac], c.registers.ac), TRUE)
CLV(c) == Ret([c EXCEPT !.registers.sr.overflow = TRUE], TRUE)
INY(c) ==
    Bind(wrapping_add8(c.registers.y, 1), LAMBDA y :
    Ret(NegativeZero([c EXCEPT !.registers.y = y], y), TRUE))
CLD(c) == Ret([c EXCEPT !.registers.sr.decimal = FALSE], TRUE)
INX(c) ==
    Bind(wrapping_add8(c.registers.x, 1), LAMBDA x :
    Ret(NegativeZero([c EXCEPT !.registers.x = x], x), TRUE))
SED(c) == Ret([c EXCEPT !.registers.sr.decimal = TRUE], TRUE)
TXA(c) == Ret(NegativeZero([c EXCEPT !.registers.ac = c.registers.x], c.registers.x), TRUE)
TXS(c) == Ret(NegativeZero([c EXCEPT !.registers.sp = c.registers.x], c.registers.x), TRUE)
TAX(c) == Ret(NegativeZero([c EXCEPT !.registers.x = c.registers.ac], c.registers.ac), TRUE)
TSX(c) == Ret(NegativeZero([c EXCEPT !.registers.x = c.registers.sp], c.registers.sp), TRUE)
DEX(c) ==
    Bind(wrapping_sub8(c.registers.x, 1), LAMBDA x :
    Ret(NegativeZero([c EXCEPT !.registers.x = x], x), TRUE))
NOP(c) == Ret(c, TRUE)

(***************************************************************************)
(* The table init_instructions builds, in its order, each entry with the   *)
(* opcodes its instruction! declares.                                      *)
(***************************************************************************)
\* A table in which two entries declare one byte: LDY also answers to
\* 0xC0, the immediate form of CPY
init_instructions_shared ==
    << [name |-> "LDY", opcodes |-> <<160, 164, 180, 172, 188, 192>>],
       [name |-> "CPY", opcodes |-> <<192, 196, 204>>],
       [name |-> "NOP", opcodes |-> <<234>>] >>

init_instructions ==
    << [name |-> "BRK", opcodes |-> <<0>>],
       [name |-> "BPL", opcodes |-> <<16>>],
       [name |-> "JSR", opcodes |-> <<32>>],
       [name |-> "BMI", opcodes |-> <<48>>],
       [name |-> "RTI", opcodes |-> <<64>>],
       [name |-> "BVC", opcodes |-> <<80>>],
       [name |-> "RTS", opcodes |-> <<96>>],
       [name |-> "BVS", opcodes |-> <<112>>],
       [name |-> "BCC", opcodes |-> <<144>>],
       [name |-> "LDY", opcodes |-> <<160, 164, 180, 172, 188>>],
       [name |-> "BCS", opcodes |-> <<176>>],
       [name |-> "CPY", opcodes |-> <<192, 196, 204>>],
       [name |-> "BNE", opcodes |-> <<208>>],
       [name |-> "CPX", opcodes |-> <<224, 228>>],
       [name |-> "BEQ", opcodes |-> <<240>>],
       [name |-> "ORA", opcodes |-> <<9, 5, 21, 13, 29, 25, 1, 17>>],
       [name |-> "AND", opcodes |-> <<41, 37, 53, 45, 61, 57, 33, 49>>],
       [name |-> "EOR", opcodes |-> <<73, 69, 85, 77, 93, 89, 65, 81>>],
       [name |-> "ADC", opcodes |-> <<105, 101, 117, 109, 125, 121, 97, 113>>],
       [name |-> "STA", opcodes |-> <<133, 149, 141, 157, 153, 129, 145>>],
       [name |-> "LDA", opcodes |-> <<169, 165, 181, 173, 189, 185, 161, 177>>],
       [name |-> "CMP", opcodes |-> <<201, 197, 213, 205, 221, 217, 193, 209>>],
       [name |-> "SBC", opcodes |-> <<233, 229, 245, 237, 253, 249, 225, 241>>],
       [name |-> "LDX", opcodes |-> <<162, 166, 182, 174, 190>>],
       [name |-> "BIT", opcodes |-> <<36, 44>>],
       [name |-> "STY", opcodes |-> <<132, 148, 140>>],
       [name |-> "ASL", opcodes |-> <<10, 6, 22, 14, 30>>],
       [name |-> "ROL", opcodes |-> <<42, 38, 54, 46, 62>>],
       [name |-> "LSR", opcodes |-> <<74, 70, 86, 78, 94>>],
       [name |-> "ROR", opcodes |-> <<106, 102, 118, 110, 126>>],
       [name |-> "STX", opcodes |-> <<134, 150, 142>>],
       [name |-> "DEC", opcodes |-> <<198, 214, 206, 222>>],
       [name |-> "INC", opcodes |-> <<230, 246, 238, 254>>],
       [name |-> "NOP", opcodes |-> <<234>>],
       [name |-> "PHP", opcodes |-> <<8>>],
       [name |-> "CLC", opcodes |-> <<24>>],
       [name |-> "PLP", opcodes |-> <<40>>],
       [name |-> "SEC", opcodes |-> <<56>>],
       [name |-> "PHA", opcodes |-> <<72>>],
       [name |-> "CLI", opcodes |-> <<88>>],
       [name |-> "PLA", opcodes |-> <<104>>],
       [name |-> "SEI", opcodes |-> <<120>>],
       [name |-> "DEY", opcodes |-> <<136>>],
       [name |-> "TYA", opcodes |-> <<152>>],
       [name |-> "TAY", opcodes |-> <<168>>],
       [name |-> "CLV", opcodes |-> <<184>>],
       [name |-> "INY", opcodes |-> <<200>>],
       [name |-> "CLD", opcodes |-> <<216>>],
       [name |-> "INX", opcodes |-> <<232>>],
       [name |-> "SED", opcodes |-> <<248>>],
       [name |-> "TXA", opcodes |-> <<138>>],
       [name |-> "TXS", opcodes |-> <<154>>],
       [name |-> "TAX", opcodes |-> <<170>>],
       [name |-> "TSX", opcodes |-> <<186>>],
       [name |-> "DEX", opcodes |-> <<202>>] >>

\* Vec::contains
contains(vec, v) == \E i \in 1..Len(vec) : vec[i] = v

\* instruction.execute(opcode, self), by the instruction's struct
execute(name, c, opcode) ==
    CASE name = "BRK" -> BRK(c)  [] name = "BPL" -> BPL(c)
      [] name = "JSR" -> JSR(c)  [] name = "BMI" -> BMI(c)
      [] name = "RTI" -> RTI(c)  [] name = "BVC" -> BVC(c)
      [] name = "RTS" -> RTS(c)  [] name = "BVS" -> BVS(c)
      [] name = "BCC" -> BCC(c)  [] name = "LDY" -> LDY(c, opcode)
      [] name = "BCS" -> BCS(c)  [] name = "CPY" -> CPY(c, opcode)
      [] name = "BNE" -> BNE(c)  [] name = "CPX" -> CPX(c, opcode)
      [] name = "BEQ" -> BEQ(c)  [] name = "ORA" -> ORA(c, opcode)
      [] name = "AND" -> AND(c, opcode)  [] name = "EOR" -> EOR(c, opcode)
      [] name = "ADC" -> ADC(c, opcode)  [] name = "STA" -> STA(c, opcode)
      [] name = "LDA" -> LDA(c, opcode)  [] name = "CMP" -> CMP(c, opcode)
      [] name = "SBC" -> SBC(c, opcode)  [] name = "LDX" -> LDX(c, opcode)
      [] name = "BIT" -> BIT(c, opcode)  [] name = "STY" -> STY(c, opcode)
      [] name = "ASL" -> ASL(c, opcode)  [] name = "ROL" -> ROL(c, opcode)
      [] name = "LSR" -> LSR(c, opcode)  [] name = "ROR" -> ROR(c, opcode)
      [] name = "STX" -> STX(c, opcode)  [] name = "DEC" -> DEC(c, opcode)
      [] name = "INC" -> INC(c, opcode)  [] name = "NOP" -> NOP(c)
      [] name = "PHP" -> PHP(c)  [] name = "CLC" -> CLC(c)
      [] name = "PLP" -> PLP(c)  [] name = "SEC" -> SEC(c)
      [] name = "PHA" -> PHA(c)  [] name = "CLI" -> CLI(c)
      [] name = "PLA" -> PLA(c)  [] name = "SEI" -> SEI(c)
      [] name = "DEY" -> DEY(c)  [] name = "TYA" -> TYA(c)
      [] name = "TAY" -> TAY(c)  [] name = "CLV" -> CLV(c)
      [] name = "INY" -> INY(c)  [] name = "CLD" -> CLD(c)
      [] name = "INX" -> INX(c)  [] name = "SED" -> SED(c)
      [] name = "TXA" -> TXA(c)  [] name = "TXS" -> TXS(c)
      [] name = "TAX" -> TAX(c)  [] name = "TSX" -> TSX(c)
      [] name = "DEX" -> DEX(c)

(***************************************************************************)
(* The engine (cpu.rs): execute_instruction, and one iteration of run's    *)
(* loop in which the interval has elapsed.                                 *)
(***************************************************************************)
\* instructions.iter().find(|i| i.get_opcodes().contains(opcode)): the index
\* of the first match, 0 for None
find(opcode) ==
    LET hits == {i \in 1..Len(init_instructions) :
                    contains(init_instructions[i].opcodes, opcode)}
    IN  IF hits = {} THEN 0
        ELSE CHOOSE i \in hits : \A j \in hits : i <= j

\* An engine that skips a byte no instruction claims, for comparison
execute_instruction_skipping(c, opcode) ==
    IF c.panicked THEN c
    ELSE IF find(opcode) = 0 THEN increment_pc(c)
    ELSE Bind(execute(init_instructions[find(opcode)].name, c, opcode), LAMBDA r :
         IF r.cpu.panicked THEN r.cpu
         ELSE IF r.ret
         THEN Bind(increment_pc(r.cpu), LAMBDA c1 :
              Printed(get_umemory_at_address(c1, c1.registers.pc).cpu))
         ELSE r.cpu)

execute_instruction(c, opcode) ==
    IF c.panicked THEN c
    ELSE IF find(opcode) = 0 THEN panic(c)
    ELSE Bind(execute(init_instructions[find(opcode)].name, c, opcode), LAMBDA r :
         IF r.cpu.panicked THEN r.cpu
         ELSE IF r.ret
         THEN Bind(increment_pc(r.cpu), LAMBDA c1 :
              Printed(get_umemory_at_address(c1, c1.registers.pc).cpu))
         ELSE r.cpu)

\* An iteration that keeps the guard of its fetch until its end, for
\* comparison
run_iteration_holding(c) ==
    IF lock(c).panicked THEN lock(c)
    ELSE IF c.registers.pc >= MemLen
    THEN unlock(panic(Access(lock(c), "read", c.registers.pc)))
    ELSE unlock(execute_instruction(Access(lock(c), "read", c.registers.pc),
                                    Mem(c, c.registers.pc)))

\* One iteration of the loop of run whose time has elapsed: lock, fetch,
\* drop(memory), execute_instruction.  An iteration whose time has not
\* elapsed locks and drops the guard at the end of its scope, and changes
\* nothing.
run_iteration(c) ==
    IF lock(c).panicked THEN lock(c)
    ELSE IF c.registers.pc >= MemLen
    THEN unlock(panic(Access(lock(c), "read", c.registers.pc)))
    ELSE execute_instruction(unlock(Access(lock(c), "read", c.registers.pc)),
                             Mem(c, c.registers.pc))

(***************************************************************************)
(* The operations as actions.  Each clears the access list, runs the whole *)
(* operation and appends it to the history.  A panicked thread runs        *)
(* nothing more.                                                           *)
(***************************************************************************)
Clear(c) == [c EXCEPT !.accesses = << >>]

Done(op, address, byte, out) ==
    hist' = Append(hist, [op |-> op, address |-> address, byte |-> byte,
                          out |-> out, pre |-> cpu])

Last == hist[Len(hist)]

\* One iteration of run's loop: fetch at pc, execute_instruction.
Step ==
    /\ Len(hist) < MaxSteps
    /\ ~cpu.panicked
    /\ cpu' = run_iteration(Clear(cpu))
    /\ Done("run", cpu.registers.pc,
            IF cpu.registers.pc < MemLen THEN Mem(cpu, cpu.registers.pc) ELSE 0, 0)
    /\ UNCHANGED overflow_checks

(***************************************************************************)
(* Inputs.  Vals are the byte values tried as register contents and        *)
(* operands: 0x00, 0x01, 0x05, 0x7F, 0x80, 0xFF.                           *)
(***************************************************************************)
Vals == {0, 1, 5, 127, 128, 255}

\* The loader of main.rs: program[1..] written at `at`, `at` + 1, ...
RECURSIVE load(_, _, _)
load(c, at, program) ==
    IF program = << >> THEN c
    ELSE load([c EXCEPT !.memory = Store(@, Filler, at, Head(program))],
              at + 1, Tail(program))

\* main.rs sets registers through the pub fields before run()
preset(c, pc, ac, x, y, sp) ==
    [c EXCEPT !.registers.pc = pc, !.registers.ac = ac, !.registers.x = x,
              !.registers.y = y, !.registers.sp = sp]

\* LDA #5; STA $10; LDA #0; LDA $10
StoreLoadProgram == <<169, 5, 133, 16, 169, 0, 165, 16>>

\* The program above at 0 from power-on, and STA zp; LDA zp with a value in
\* the accumulator
StoreLoadStarts ==
    {load(CPU_new, 0, StoreLoadProgram)}
    \cup {load(preset(CPU_new, at, v, 0, 0, 0), at, <<133, zp, 165, zp>>) :
            v \in Vals, zp \in {16, 128}, at \in {0, 512}}

\* CMP #m, CPX #m, CPY #m with r in the compared register
CompareStarts ==
    {load(preset(CPU_new, at,
                 IF op = 201 THEN r ELSE 17,
                 IF op = 224 THEN r ELSE 34,
                 IF op = 192 THEN r ELSE 51, 0),
          at, <<op, m>>) :
        op \in {201, 224, 192}, r \in Vals, m \in Vals, at \in {0, 512}}

\* BPL BMI BVC BVS BCC BCS BNE BEQ
BranchOpcodes == {16, 48, 80, 112, 144, 176, 208, 240}

\* Offsets 0x00, 0x01, 0x05, 0x7F, 0x80, 0xFE, 0xFF
Offsets == {0, 1, 5, 127, 128, 254, 255}

\* A branch at `at` with offset d; N, V, Z and C are all f
BranchStarts ==
    {[load(preset(CPU_new, at, 0, 0, 0, 0), at, <<op, d>>)
        EXCEPT !.registers.sr.negative = f, !.registers.sr.overflow = f,
               !.registers.sr.zero = f, !.registers.sr.carry = f] :
        op \in BranchOpcodes, d \in Offsets, at \in {0, 512}, f \in BOOLEAN}

\* JSR lo hi at `at`, with RTS at the target lo | hi << 8 and at `at` + lo
SubroutineStarts ==
    {load(load(load(preset(CPU_new, at, 0, 0, 0, sp), lo + 256 * hi, <<96>>),
               (at + lo) % 65536, <<96>>),
          at, <<32, lo, hi>>) :
        at \in {0, 512}, lo \in {3, 16}, hi \in {0, 2}, sp \in {0, 1, 128}}

\* Every opcode the table gives a Zeropage, ZeropageX or ZeropageY form
ZeropageOpcodes ==
    {164, 180, 196, 228, 5, 21, 37, 53, 69, 85, 101, 117, 133, 149, 165, 181,
     197, 213, 229, 245, 166, 182, 36, 132, 148, 6, 22, 38, 54, 70, 86, 102,
     118, 134, 150, 198, 214, 230, 246}

\* A zero-page instruction in page zero, with its operand and X, Y
ZeropageStarts ==
    {load(preset(CPU_new, at, 5, xy[1], xy[2], 0), at, <<op, operand>>) :
        op \in ZeropageOpcodes, operand \in {0, 16, 128, 255},
        xy \in {<<0, 0>>, <<1, 2>>, <<128, 1>>, <<255, 255>>}, at \in {0, 16}}

\* LDA LDX LDY ADC SBC AND ORA EOR, immediate
FlagOpcodes == {169, 162, 160, 105, 233, 41, 9, 73}

FlagStarts ==
    {[load(preset(CPU_new, 0, a, 0, 0, 0), 0, <<op, m>>)
        EXCEPT !.registers.sr.carry = carry] :
        op \in FlagOpcodes, a \in Vals, m \in Vals, carry \in BOOLEAN}

\* Bytes no entry of the table claims: 0x02, 0x4C, 0xFF
UnknownOpcodes == {2, 76, 255}

\* An unclaimed byte first, or after INX; LDA #5 follows it
UnknownStarts ==
    {load(preset(CPU_new, at, a, 1, 2, sp), at, program) :
        at \in {0, 512}, a \in {0, 128}, sp \in {0, 3},
        program \in {<<op, 169, 5>> : op \in UnknownOpcodes}
                     \cup {<<232, op, 169, 5>> : op \in UnknownOpcodes}}

\* Branches, JSR, RTI, RTS and BRK: the opcodes that set the program counter
ControlOpcodes == BranchOpcodes \cup {0, 32, 64, 96}

\* Every byte some entry of the table claims
TableOpcodes == {o \in 0..255 : find(o) # 0}

\* Each remaining opcode of the table with operand bytes 0x10 0x02
OpcodeStarts ==
    {load(preset(CPU_new, at, 5, xy, xy, 3), at, <<op, 16, 2>>) :
        op \in TableOpcodes \ ControlOpcodes, at \in {0, 512}, xy \in {0, 255}}

\* Untouched memory, every cell NOP, entered two and one cells below the
\* last one
TopStarts == {preset(CPU_new, pc, 0, 0, 0, 0) : pc \in {65533, 65534}}

\* BRK at 0x0000 and at 0x0200 in one memory, 0x1234 in the two cells after
\* the first one's padding and 0x5678 after the second one's; entered at
\* either
BrkStarts ==
    {[load(load(preset(CPU_new, at, 0, 0, 0, sp), 0, <<0, 1, 2, 52, 18>>),
           512, <<0, 1, 2, 120, 86>>)
        EXCEPT !.registers.sr.interrupt = interrupt,
               !.registers.sr.carry = carry] :
        at \in {0, 512}, sp \in {0, 3}, interrupt \in BOOLEAN, carry \in BOOLEAN}

\* The flag sets tried: none, all, carry alone, negative with interrupt
FlagSets ==
    {[f \in FlagNames |-> f \in S] :
        S \in {{}, FlagNames, {"carry"}, {"negative", "interrupt"}}}

\* BRK at `at` whose two vector cells hold 0x1234, and RTI at 0x1234
BreakReturnStarts ==
    {[load(load(preset(CPU_new, at, 0, 0, 0, sp), at, <<0, 1, 2, 52, 18>>),
           4660, <<64>>)
        EXCEPT !.registers.sr = F] :
        at \in {0, 512}, sp \in {0, 3}, F \in FlagSets}

\* PHP PLP and PHA PLA, back to back and with SEC, CLC or LDA #0 in between
PushPullPrograms ==
    {<<8, 40>>, <<8, 56, 40>>, <<8, 24, 40>>, <<72, 104>>, <<72, 169, 0, 104>>}

PushPullStarts ==
    {[load(preset(CPU_new, 512, a, 0, 0, sp), 512, program)
        EXCEPT !.registers.sr = F] :
        program \in PushPullPrograms, a \in Vals, sp \in {0, 3}, F \in FlagSets}

\* The opcodes of the table whose mode is Absolute, AbsoluteX or AbsoluteY,
\* bits bbb = 011, 111 and 110 with cc = 01
AbsoluteOpcodes ==
    {o \in TableOpcodes :
        \/ (o \div 4) % 8 \in {3, 7}
        \/ (o \div 4) % 8 = 6 /\ o % 4 = 1}

\* An absolute-mode instruction with operand 0x0210 or 0x01FF and X, Y
AbsoluteStarts ==
    {load(preset(CPU_new, at, 5, xy[1], xy[2], 0), at, <<op, w[1], w[2]>>) :
        op \in AbsoluteOpcodes, w \in {<<16, 2>>, <<255, 1>>},
        xy \in {<<0, 0>>, <<1, 2>>, <<255, 3>>}, at \in {0, 1024}}

\* The opcodes of STA, STX and STY
StoreOpcodes == {133, 149, 141, 157, 153, 129, 145, 134, 150, 142, 132, 148, 140}

\* A store with one value in the accumulator, X and Y, all flags clear
StoreStarts ==
    {load(preset(CPU_new, at, v, v, v, 0), at, <<op, 16, 2>>) :
        op \in StoreOpcodes, v \in {0, 5, 128}, at \in {0, 1024}}

\* The memory forms of ASL, ROL, LSR and ROR
MemoryShiftOpcodes ==
    {6, 22, 14, 30, 38, 54, 46, 62, 70, 86, 78, 94, 102, 118, 110, 126}

\* A memory-form shift with operand bytes 0x10 0x02 and `v` in the cells it
\* can address: 0x10, 0x11, 0x0210, 0x0211
MemoryShiftStarts ==
    {[load(load(load(preset(CPU_new, 1024, 5, x, 0, 0), 16, <<v, v>>),
                528, <<v, v>>),
           1024, <<op, 16, 2>>)
        EXCEPT !.registers.sr.carry = carry] :
        op \in MemoryShiftOpcodes, v \in {1, 85, 128}, x \in {0, 1},
        carry \in BOOLEAN}

\* ASL A, ROL A, LSR A, ROR A
AccumulatorShiftOpcodes == {10, 42, 74, 106}

\* An accumulator-form shift at 0x0000 or 0x0400
AccumulatorShiftStarts ==
    {[load(preset(CPU_new, at, a, 1, 2, 3), at, <<op>>)
        EXCEPT !.registers.sr.carry = carry] :
        op \in AccumulatorShiftOpcodes, a \in Vals, at \in {0, 1024},
        carry \in BOOLEAN}

\* The opcodes of DEC and INC
IncDecOpcodes == {198, 214, 206, 222, 230, 246, 238, 254}

\* DEC or INC with operand bytes 0x10 0x02, `v` in cells 0x10 and 0x0210 and
\* 0x42 in the cells after them
IncDecStarts ==
    {load(load(load(preset(CPU_new, 1024, 5, x, 0, 0), 16, <<v, 66>>),
               528, <<v, 66>>),
          1024, <<op, 16, 2>>) :
        op \in IncDecOpcodes, v \in {0, 127, 255}, x \in {0, 1}}

\* DEC or INC absolute with operand bytes 0xFF 0xFF: the operand names
\* address 0xFFFF, one past the last cell of the memory
TopOperandStarts ==
    {load(preset(CPU_new, 1024, 5, x, 0, 0), 1024, <<op, 255, 255>>) :
        op \in {206, 238}, x \in {0, 1}}

\* The opcodes of CLC, SEC, CLI, SEI, CLV, CLD and SED
FlagInstructionOpcodes == {24, 56, 88, 120, 184, 216, 248}

\* One of them at 0x0200 with each flag set tried
FlagInstructionStarts ==
    {[load(preset(CPU_new, 512, 5, 1, 2, 3), 512, <<op>>)
        EXCEPT !.registers.sr = F] :
        op \in FlagInstructionOpcodes, F \in FlagSets}

\* The opcodes of TXA, TYA, TXS, TAY, TAX and TSX
TransferOpcodes == {138, 152, 154, 168, 170, 186}

\* One of them at 0x0200, the four registers holding v, v + 1, v + 2 and
\* v + 3 modulo 256, with no flag and with every flag set
TransferStarts ==
    {[load(preset(CPU_new, 512, v, (v + 1) % 256, (v + 2) % 256, (v + 3) % 256),
           512, <<op>>)
        EXCEPT !.registers.sr = [f \in FlagNames |-> all]] :
        op \in TransferOpcodes, v \in {0, 125, 128, 253, 255}, all \in BOOLEAN}

\* The processor as CPU::new leaves it: every cell NOP, PC = 0
PowerOnStarts == {CPU_new}

\* PHA then a store or a read-modify-write of cell 0x0210 at 0x0200, the
\* stack pointer at 3 and at its last cell
StackAndStorePrograms ==
    {<<72, op, 16, 2>> : op \in {141, 142, 140, 238, 206, 14, 110}}

StackAndStoreStarts ==
    {load(preset(CPU_new, 512, 5, 0, 0, sp), 512, program) :
        program \in StackAndStorePrograms, sp \in {3, 254}}

\* From power-on, BNE or BCC at 0 with offset byte 0x82: a taken branch to
\* 0xFFFF, the address two below that of the offset byte
TopBranchStarts == {load(CPU_new, 0, <<op, 130>>) : op \in {208, 144}}

Starts ==
    StoreLoadStarts \cup CompareStarts \cup BranchStarts \cup SubroutineStarts
    \cup ZeropageStarts \cup FlagStarts \cup UnknownStarts \cup OpcodeStarts
    \cup TopStarts \cup BrkStarts \cup BreakReturnStarts
    \cup PushPullStarts \cup AbsoluteStarts \cup StoreStarts
    \cup MemoryShiftStarts \cup AccumulatorShiftStarts \cup IncDecStarts
    \cup TopOperandStarts
    \cup FlagInstructionStarts
    \cup TransferStarts
    \cup PowerOnStarts
    \cup StackAndStoreStarts
    \cup TopBranchStarts

(***************************************************************************)
(* The engine: a loaded processor, then run().                             *)
(***************************************************************************)
Init ==
    /\ cpu \in Starts
    /\ hist = << >>
    /\ overflow_checks \in BOOLEAN

Next == Step

Spec == Init /\ [][Next]_vars

(***************************************************************************)
(* The two conversions of StatRegister on their own: a byte is unpacked    *)
(* into registers.sr (as PLP and RTI do), registers.sr is packed into a    *)
(* byte (as PHP and BRK do).                                               *)
(***************************************************************************)
\* registers.sr = StatRegister::from(byte)
FromByte ==
    \E byte \in Byte :
        /\ Len(hist) < MaxConversions
        /\ cpu' = SetSr(cpu, byte)
        /\ Done("from", 0, byte, 0)
        /\ UNCHANGED overflow_checks

\* u8::from(registers.sr)
IntoByte ==
    /\ Len(hist) < MaxConversions
    /\ cpu' = cpu
    /\ Done("into", 0, 0, u8_from(cpu.registers.sr))
    /\ UNCHANGED overflow_checks

InitStat ==
    /\ cpu = CPU_new
    /\ hist = << >>
    /\ overflow_checks \in BOOLEAN

NextStat == FromByte \/ IntoByte

SpecStat == InitStat /\ [][NextStat]_vars

(***************************************************************************)
(* The three memory accessors called on their own, on a processor fresh    *)
(* from CPU::new with the program counter at either end of the memory.     *)
(***************************************************************************)
\* Addresses 0x0000, 0x0001, 0x00FF, 0x0100, 0xFFFE, 0xFFFF
Addresses == {0, 1, 255, 256, 65534, 65535}

\* Bytes 0x00, 0x05, 0xEA (the filler), 0xFF
Bytes == {0, 5, 234, 255}

SetMemory ==
    \E address \in Addresses, byte \in Bytes :
        /\ Len(hist) < MaxCalls
        /\ ~cpu.panicked
        /\ cpu' = set_memory_at_address(Clear(cpu), address, byte)
        /\ Done("set", address, byte, 0)
        /\ UNCHANGED overflow_checks

GetMemory ==
    \E address \in Addresses :
        /\ Len(hist) < MaxCalls
        /\ ~cpu.panicked
        /\ cpu' = get_memory_at_address(Clear(cpu), address).cpu
        /\ Done("get", address, 0, get_memory_at_address(Clear(cpu), address).out)
        /\ UNCHANGED overflow_checks

GetUMemory ==
    \E address \in Addresses :
        /\ Len(hist) < MaxCalls
        /\ ~cpu.panicked
        /\ cpu' = get_umemory_at_address(Clear(cpu), address).cpu
        /\ Done("uget", address, 0, get_umemory_at_address(Clear(cpu), address).out)
        /\ UNCHANGED overflow_checks

InitMem ==
    /\ cpu \in {preset(CPU_new, pc, 0, 0, 0, 0) : pc \in {0, 65534}}
    /\ hist = << >>
    /\ overflow_checks \in BOOLEAN

NextMem == SetMemory \/ GetMemory \/ GetUMemory

SpecMem == InitMem /\ [][NextMem]_vars

(***************************************************************************)
(* The three program-counter operations of Registers called on their own,  *)
(* from a program counter at either end of its range.  `out` is the value  *)
(* the operation returns: self.pc after the assignment.                    *)
(***************************************************************************)
\* Amounts 0, 1, 2, 3 and 0xFFFF
Amounts == {0, 1, 2, 3, 65535}

IncrementPc ==
    /\ Len(hist) < MaxPcCalls
    /\ cpu' = increment_pc(cpu)
    /\ Done("increment_pc", 0, 0, increment_pc(cpu).registers.pc)
    /\ UNCHANGED overflow_checks

IncrementPcBy ==
    \E amount \in Amounts :
        /\ Len(hist) < MaxPcCalls
        /\ cpu' = increment_pc_by(cpu, amount)
        /\ Done("increment_pc_by", 0, amount, increment_pc_by(cpu, amount).registers.pc)
        /\ UNCHANGED overflow_checks

DecrementPc ==
    /\ Len(hist) < MaxPcCalls
    /\ cpu' = decrement_pc(cpu)
    /\ Done("decrement_pc", 0, 0, decrement_pc(cpu).registers.pc)
    /\ UNCHANGED overflow_checks

InitPc ==
    /\ cpu \in {preset(CPU_new, pc, 0, 0, 0, 0) : pc \in {0, 1, 2, 32768, 65534, 65535}}
    /\ hist = << >>
    /\ overflow_checks \in BOOLEAN

NextPc == IncrementPc \/ IncrementPcBy \/ DecrementPc

SpecPc == InitPc /\ [][NextPc]_vars

(***************************************************************************)
(* The two stack operations of CPU called on their own, on a processor     *)
(* fresh from CPU::new whose stack pointer (a pub field, and what TXS      *)
(* sets) is anywhere in its range.                                         *)
(***************************************************************************)
\* Stack pointers 0x00, 0x01, 0x7F, 0xFE, 0xFF
StackPointers == {0, 1, 127, 254, 255}

\* Pushed bytes 0x01, 0x05, 0xFF
Pushed == {1, 5, 255}

PushToStack ==
    \E value \in Pushed :
        /\ Len(hist) < MaxStackCalls
        /\ ~cpu.panicked
        /\ cpu' = push_to_stack(cpu, value)
        /\ Done("push", 0, value, 0)
        /\ UNCHANGED overflow_checks

PullFromStack ==
    /\ Len(hist) < MaxStackCalls
    /\ ~cpu.panicked
    /\ cpu' = pull_from_stack(cpu).cpu
    /\ Done("pull", 0, 0, pull_from_stack(cpu).out)
    /\ UNCHANGED overflow_checks

InitStack ==
    /\ cpu \in {preset(CPU_new, 0, 0, 0, 0, sp) : sp \in StackPointers}
    /\ hist = << >>
    /\ overflow_checks \in BOOLEAN

NextStack == PushToStack \/ PullFromStack

SpecStack == InitStack /\ [][NextStack]_vars

(***************************************************************************)
(* A processor as CPU::new returns it, then calls of its stack and program *)
(* counter operations.                                                     *)
(***************************************************************************)
InitNew ==
    /\ cpu = CPU_new
    /\ hist = << >>
    /\ overflow_checks \in BOOLEAN

NextNew == PushToStack \/ PullFromStack \/ IncrementPc \/ DecrementPc

SpecNew == InitNew /\ [][NextNew]_vars

(***************************************************************************)
(* Properties.                                                             *)
(***************************************************************************)
\* C1.  Status-byte round trip: a byte unpacked into the flag set and the
\* flag set packed again gives the byte back, for every byte 0..255.
C1_StatusByteRoundTrip ==
    \A i \in 2..Len(hist) :
        (hist[i - 1].op = "from" /\ hist[i].op = "into")
            => hist[i].out = hist[i - 1].byte

\* The flag set in which only `flag` is true.
OnlyFlag(flag) == [f \in FlagNames |-> f = flag]

\* C2.  The bit assignment is the same in both directions: after a byte b is
\* unpacked, each of the eight flags is true exactly when the bit that
\* packing writes for that flag is set in b.
C2_SameBitBothDirections ==
    (hist # << >> /\ Last.op = "from")
        => \A flag \in FlagNames :
              cpu.registers.sr[flag] = (BitAnd(Last.byte, u8_from(OnlyFlag(flag))) # 0)

\* The run so far is `n` instructions, the first one `opcode` at `address`.
Ran(n, opcodes) == Len(hist) = n /\ hist[1].op = "run" /\ hist[1].byte \in opcodes

\* C3.  Store then load: LDA #5; STA $10; LDA #0; LDA $10 at 0 from power-on
\* leaves 0x05 in the accumulator and Zero clear after four steps; and the
\* accumulator stored with STA zp and loaded with LDA zp from the same
\* address comes back unchanged.
C3_StoreLoad ==
    /\ (Len(hist) = 4 /\ hist[1].pre = load(CPU_new, 0, StoreLoadProgram))
          => (/\ ~cpu.panicked
              /\ cpu.registers.ac = 5
              /\ ~cpu.registers.sr.zero)
    /\ (Ran(2, {133}) /\ hist[2].byte = 165 /\ hist[2].address = hist[1].address + 2
            /\ Mem(hist[1].pre, hist[1].address + 1) = Mem(hist[1].pre, hist[1].address + 3))
          => (~cpu.panicked /\ cpu.registers.ac = hist[1].pre.registers.ac)

\* The register CMP, CPX or CPY compares.
Compared(c, opcode) ==
    CASE opcode = 201 -> c.registers.ac
      [] opcode = 224 -> c.registers.x
      [] opcode = 192 -> c.registers.y

\* C4.  Compare: after CMP #m, CPX #m or CPY #m with r in the register, Zero
\* is r = m, Carry is r >= m, Negative is bit 7 of (r - m) mod 256 and the
\* register still holds r.
C4_Compare ==
    Ran(1, {201, 224, 192})
        => LET r == Compared(hist[1].pre, hist[1].byte)
               m == Mem(hist[1].pre, hist[1].address + 1)
           IN  /\ ~cpu.panicked
               /\ cpu.registers.sr.zero = (r = m)
               /\ cpu.registers.sr.carry = (r >= m)
               /\ cpu.registers.sr.negative = (((r - m + 256) % 256) >= 128)
               /\ Compared(cpu, hist[1].byte) = r

\* The flag condition a branch opcode tests.
Taken(c, opcode) ==
    CASE opcode = 16  -> ~c.registers.sr.negative
      [] opcode = 48  -> c.registers.sr.negative
      [] opcode = 80  -> ~c.registers.sr.overflow
      [] opcode = 112 -> c.registers.sr.overflow
      [] opcode = 144 -> ~c.registers.sr.carry
      [] opcode = 176 -> c.registers.sr.carry
      [] opcode = 208 -> ~c.registers.sr.zero
      [] opcode = 240 -> c.registers.sr.zero

\* The two's-complement value of a byte.
signed8(d) == IF d >= 128 THEN d - 256 ELSE d

\* C5.  Taken branch: a branch at A with offset byte d whose condition holds
\* leaves PC = (A + 2 + signed8(d)) mod 65536.
C5_TakenBranch ==
    (Ran(1, BranchOpcodes) /\ Taken(hist[1].pre, hist[1].byte))
        => (/\ ~cpu.panicked
            /\ cpu.registers.pc =
                 (hist[1].address + 2
                    + signed8(Mem(hist[1].pre, hist[1].address + 1)) + 65536) % 65536)

\* C6.  Subroutine symmetry: JSR at A and then RTS as the next instruction
\* leave PC = A + 3 and the stack pointer as it was before the JSR.
C6_SubroutineSymmetry ==
    (Ran(2, {32}) /\ hist[2].byte = 96)
        => (/\ ~cpu.panicked
            /\ cpu.registers.pc = (hist[1].address + 3) % 65536
            /\ cpu.registers.sp = hist[1].pre.registers.sp)

\* The cells in which the memories of two processors differ.
Changed(c1, c2) ==
    {a \in (DOMAIN c1.memory) \cup (DOMAIN c2.memory) : Mem(c1, a) # Mem(c2, a)}

\* C7.  Memory write then read: set_memory_at_address(address, v) completes,
\* changes no other cell, and a read of the same address right after it
\* returns v.
C7_WriteThenRead ==
    /\ (hist # << >> /\ Last.op = "set")
          => (~cpu.panicked /\ Changed(cpu, Last.pre) \subseteq {Last.address})
    /\ \A i \in 2..Len(hist) :
          (/\ hist[i - 1].op = "set"
           /\ hist[i].op \in {"get", "uget"}
           /\ hist[i].address = hist[i - 1].address)
              => hist[i].out = hist[i - 1].byte

\* C8.  Memory is total: every 16-bit address an accessor is called with is
\* a cell of the memory, and the accessor completes without a bounds fault.
C8_MemoryTotal ==
    /\ ~cpu.panicked
    /\ \A i \in 1..Len(hist) :
          hist[i].op \in {"set", "get", "uget"} => hist[i].address \in 0..(MemLen - 1)

\* C9.  Zero-page truncation: an instruction in page zero that addresses
\* Zeropage, ZeropageX or ZeropageY reads and writes only below 0x100.
C9_ZeropageTruncation ==
    (Ran(1, ZeropageOpcodes) /\ hist[1].address < 32)
        => \A i \in 1..Len(cpu.accesses) :
              cpu.accesses[i].kind \in {"read", "write"}
                  => cpu.accesses[i].address < 256

\* The register LDA, LDX, LDY, ADC, SBC, AND, ORA or EOR leaves its result in.
Result(c, opcode) ==
    CASE opcode = 162 -> c.registers.x
      [] opcode = 160 -> c.registers.y
      [] OTHER -> c.registers.ac

\* C10.  Negative/Zero derivation: after LDA, LDX, LDY, ADC, SBC, AND, ORA or
\* EOR, Negative is bit 7 of the result register and Zero is whether the
\* result register is 0.
C10_NegativeZero ==
    Ran(1, FlagOpcodes)
        => (/\ ~cpu.panicked
            /\ cpu.registers.sr.negative = (Result(cpu, hist[1].byte) >= 128)
            /\ cpu.registers.sr.zero = (Result(cpu, hist[1].byte) = 0))

\* The calls from the i-th on are increment_pc_by(n) and then n times
\* decrement_pc, and there are no more.
ByThenBack(i) ==
    /\ hist[i].op = "increment_pc_by"
    /\ Len(hist) = i + hist[i].byte
    /\ \A j \in (i + 1)..Len(hist) : hist[j].op = "decrement_pc"

\* C11.  Program-counter arithmetic is modular: increment_pc from 0xFFFF
\* gives 0x0000 and decrement_pc from 0x0000 gives 0xFFFF, each returns the
\* new PC, and increment_pc then decrement_pc, or increment_pc_by(n) then n
\* times decrement_pc, gives back the PC there was.
C11_PcModular ==
    /\ ~cpu.panicked
    /\ hist # << >> => Last.out = cpu.registers.pc
    /\ (hist # << >> /\ Last.op = "increment_pc" /\ Last.pre.registers.pc = 65535)
          => cpu.registers.pc = 0
    /\ (hist # << >> /\ Last.op = "decrement_pc" /\ Last.pre.registers.pc = 0)
          => cpu.registers.pc = 65535
    /\ \A i \in 2..Len(hist) :
          (i = Len(hist) /\ hist[i - 1].op = "increment_pc" /\ hist[i].op = "decrement_pc")
              => cpu.registers.pc = hist[i - 1].pre.registers.pc
    /\ \A i \in 1..Len(hist) :
          ByThenBack(i) => cpu.registers.pc = hist[i].pre.registers.pc

\* C12.  Stack wraparound without faulting: from every stack pointer a push
\* and a pull complete without indexing the stack out of bounds, a push
\* moves the pointer up by 1 modulo 256 and a pull moves it down by 1 modulo
\* 256 (from 0x00 to 0xFF).
C12_StackWraps ==
    /\ ~cpu.panicked
    /\ (hist # << >> /\ Last.op = "push")
          => cpu.registers.sp = (Last.pre.registers.sp + 1) % 256
    /\ (hist # << >> /\ Last.op = "pull")
          => cpu.registers.sp = (Last.pre.registers.sp + 255) % 256

\* C13.  An unknown opcode is fatal and free of side effects: when the
\* fetched byte is in no instruction's opcode set the engine stops at that
\* step, no routine runs (the fetch is the step's only access), registers,
\* flags, stack and memory keep their values from before the fetch, and run
\* executes nothing after it.
C13_UnknownOpcodeFatal ==
    \A i \in 1..Len(hist) :
        (/\ hist[i].op = "run"
         /\ hist[i].pre.registers.pc < MemLen
         /\ find(hist[i].byte) = 0)
        => /\ i = Len(hist)
           /\ cpu.panicked
           /\ cpu.registers = hist[i].pre.registers
           /\ cpu.stack = hist[i].pre.stack
           /\ cpu.memory = hist[i].pre.memory
           /\ cpu.accesses = <<[kind |-> "read", address |-> hist[i].address]>>

\* C14.  Power-on state: right after construction PC = 0, the accumulator,
\* X, Y and the stack pointer are 0, all eight status flags are clear,
\* every stack cell is 0 and every memory cell holds 0xEA.
C14_PowerOn ==
    hist = << >> =>
        /\ ~cpu.panicked
        /\ cpu.registers.pc = 0
        /\ cpu.registers.ac = 0
        /\ cpu.registers.x = 0
        /\ cpu.registers.y = 0
        /\ cpu.registers.sp = 0
        /\ \A f \in FlagNames : ~cpu.registers.sr[f]
        /\ \A i \in 0..(StackLen - 1) : Stk(cpu, i) = 0
        /\ \A a \in 0..(MemLen - 1) : Mem(cpu, a) = 234

\* The operand bytes of an opcode's addressing mode, from the opcode's bits
\* aaabbbcc: 2 for absolute, absolute,X and absolute,Y, 0 for implied and
\* accumulator, 1 for immediate, the zero-page forms and the indirect forms.
OperandBytes(opcode) ==
    LET bbb == (opcode \div 4) % 8
        cc  == opcode % 4
    IN  CASE bbb \in {3, 7} -> 2
          [] bbb = 6 /\ cc = 1 -> 2
          [] bbb \in {2, 6} /\ cc # 1 -> 0
          [] OTHER -> 1

\* C15.  The program counter advances by the operand size: one step of an
\* implemented opcode other than a branch, JSR, RTS, RTI or BRK at address A
\* leaves PC = (A + 1 + n) mod 65536, n the operand bytes of its mode.
C15_PcAdvance ==
    Ran(1, TableOpcodes \ ControlOpcodes) =>
        /\ ~cpu.panicked
        /\ cpu.registers.pc =
              (hist[1].address + 1 + OperandBytes(hist[1].byte)) % 65536

\* What the routine of the last step returned: its processor and its bool.
Returned ==
    execute(init_instructions[find(Last.byte)].name,
            Access(Clear(Last.pre), "read", Last.address), Last.byte)

\* C16.  Dispatch-loop policy: after a routine returns the engine advances
\* PC by exactly 1 if it returned true and leaves PC untouched if it
\* returned false; the routines that return false are exactly taken
\* branches, JSR, RTS, RTI and BRK.
C16_DispatchPolicy ==
    (/\ hist # << >>
     /\ Last.op = "run"
     /\ Last.address < MemLen
     /\ find(Last.byte) # 0
     /\ ~Returned.cpu.panicked)
    => /\ cpu.registers.pc =
             IF Returned.ret THEN (Returned.cpu.registers.pc + 1) % 65536
             ELSE Returned.cpu.registers.pc
       /\ Returned.ret =
             ~(\/ Last.byte \in {0, 32, 64, 96}
               \/ Last.byte \in BranchOpcodes /\ Taken(Last.pre, Last.byte))

\* C17.  The stack is last-in first-out: push_to_stack(v) directly followed
\* by pull_from_stack() returns v and leaves the stack pointer where it was
\* before the push; two pushes v1, v2 followed by two pulls return v2, v1.
C17_LastInFirstOut ==
    \A i \in 1..Len(hist) :
        /\ (/\ i + 1 <= Len(hist)
            /\ hist[i].op = "push"
            /\ hist[i + 1].op = "pull")
           => LET after == IF i + 1 = Len(hist) THEN cpu ELSE hist[i + 2].pre
              IN  /\ ~after.panicked
                  /\ hist[i + 1].out = hist[i].byte
                  /\ after.registers.sp = hist[i].pre.registers.sp
        /\ (/\ i + 3 <= Len(hist)
            /\ hist[i].op = "push"
            /\ hist[i + 1].op = "push"
            /\ hist[i + 2].op = "pull"
            /\ hist[i + 3].op = "pull")
           => /\ hist[i + 2].out = hist[i + 1].byte
              /\ hist[i + 3].out = hist[i].byte

\* C18.  Non-taken branch: a branch at A whose condition does not hold
\* leaves PC = A + 2 and changes no other register, flag or memory cell.
C18_BranchNotTaken ==
    (Ran(1, BranchOpcodes) /\ ~Taken(hist[1].pre, hist[1].byte)) =>
        /\ ~cpu.panicked
        /\ cpu.registers =
              [hist[1].pre.registers EXCEPT !.pc = (hist[1].address + 2) % 65536]
        /\ cpu.memory = hist[1].pre.memory
        /\ cpu.stack = hist[1].pre.stack

\* C19.  JSR at A with operand bytes lo, hi pushes the return address A + 2,
\* high byte first and then the low byte, and leaves PC = lo | (hi << 8)
\* whatever A is.
C19_JsrAbsolute ==
    Ran(1, {32}) =>
        LET A   == hist[1].address
            pre == hist[1].pre
            sp  == hist[1].pre.registers.sp
        IN  /\ ~cpu.panicked
            /\ Stk(cpu, sp) = ((A + 2) % 65536) \div 256
            /\ Stk(cpu, sp + 1) = (A + 2) % 256
            /\ cpu.registers.sp = sp + 2
            /\ cpu.registers.pc = Mem(pre, A + 1) + 256 * Mem(pre, A + 2)

\* C20.  BRK at A pushes A + 2, high byte then low byte, and then the packed
\* status byte; afterwards every flag but interrupt-disable is clear and
\* interrupt-disable is as before; PC is loaded low byte first from a
\* location that does not depend on A: the same processor entered at
\* another BRK ends with the same PC.
C20_Break ==
    Ran(1, {0}) =>
        LET A   == hist[1].address
            pre == hist[1].pre
            sp  == hist[1].pre.registers.sp
        IN  /\ ~cpu.panicked
            /\ Stk(cpu, sp) = ((A + 2) % 65536) \div 256
            /\ Stk(cpu, sp + 1) = (A + 2) % 256
            /\ Stk(cpu, sp + 2) = u8_from(pre.registers.sr)
            /\ \A f \in FlagNames \ {"interrupt"} : ~cpu.registers.sr[f]
            /\ cpu.registers.sr.interrupt = pre.registers.sr.interrupt
            /\ \A other \in {0, 512} :
                   Mem(pre, other) = 0 =>
                       run_iteration(Clear([pre EXCEPT !.registers.pc = other]))
                           .registers.pc = cpu.registers.pc

\* C21.  BRK and RTI are symmetric: BRK at A and then RTI as the next
\* instruction restore all eight flags, leave PC = A + 2, the address BRK
\* pushed, and the stack pointer as it was before the BRK.
C21_BreakReturn ==
    (Ran(2, {0}) /\ hist[2].byte = 64) =>
        /\ ~cpu.panicked
        /\ cpu.registers.sr = hist[1].pre.registers.sr
        /\ cpu.registers.pc = (hist[1].address + 2) % 65536
        /\ cpu.registers.sp = hist[1].pre.registers.sp

\* The opcodes run so far, in order.
Opcodes == [i \in 1..Len(hist) |-> hist[i].byte]

\* C22.  Push and pull round trips: PHP and then PLP, with the flags changed
\* in between or not, restore all eight flags; PHA and then PLA restore the
\* accumulator and set Negative and Zero from it.
C22_PushPull ==
    /\ (hist # << >> /\ hist[1].op = "run"
          /\ Opcodes \in {<<8, 40>>, <<8, 56, 40>>, <<8, 24, 40>>})
       => /\ ~cpu.panicked
          /\ cpu.registers.sr = hist[1].pre.registers.sr
    /\ (hist # << >> /\ hist[1].op = "run"
          /\ Opcodes \in {<<72, 104>>, <<72, 169, 104>>})
       => /\ ~cpu.panicked
          /\ cpu.registers.ac = hist[1].pre.registers.ac
          /\ cpu.registers.sr.negative = (hist[1].pre.registers.ac >= 128)
          /\ cpu.registers.sr.zero = (hist[1].pre.registers.ac = 0)

\* C23.  ADC: the accumulator becomes (a + m + c) mod 256, Carry is set
\* exactly when a + m + c > 255, and Overflow exactly when the signed sum of
\* a, m and c is outside -128..127.
C23_AddWithCarry ==
    Ran(1, {105}) =>
        LET a == hist[1].pre.registers.ac
            m == Mem(hist[1].pre, hist[1].address + 1)
            c == BoolToU8(hist[1].pre.registers.sr.carry)
        IN  /\ ~cpu.panicked
            /\ cpu.registers.ac = (a + m + c) % 256
            /\ cpu.registers.sr.carry = (a + m + c > 255)
            /\ cpu.registers.sr.overflow =
                  (signed8(a) + signed8(m) + c \notin -128..127)

\* The opcodes of the table whose mode is Zeropage, bits bbb = 001.
ZeropageForms == {o \in ZeropageOpcodes : (o \div 4) % 8 = 1}

\* C24.  The zero-page effective address comes from the operand byte: a
\* zero-page opcode at A reads or writes, after its fetch, the cell whose
\* address is the value of the byte at A + 1.
C24_ZeropageOperand ==
    Ran(1, ZeropageForms) =>
        /\ ~cpu.panicked
        /\ \E i \in 2..Len(cpu.accesses) :
              /\ cpu.accesses[i].kind \in {"read", "write"}
              /\ cpu.accesses[i].address = Mem(hist[1].pre, hist[1].address + 1) % 256

\* The index register of an absolute form: none for Absolute, Y for
\* AbsoluteY and for LDX 0xBE, X for the other AbsoluteX forms.
AbsoluteIndex(c, opcode) ==
    CASE (opcode \div 4) % 8 = 3 -> 0
      [] (opcode \div 4) % 8 = 6 \/ opcode = 190 -> c.registers.y
      [] OTHER -> c.registers.x

\* C25.  The absolute effective address is composed low byte first: an
\* absolute-mode opcode at A with operand bytes lo, hi accesses, after its
\* fetch, the cell at (lo | hi << 8) plus its index register modulo 65536.
C25_AbsoluteOperand ==
    Ran(1, AbsoluteOpcodes) =>
        /\ ~cpu.panicked
        /\ \E i \in 2..Len(cpu.accesses) :
              /\ cpu.accesses[i].kind \in {"read", "write"}
              /\ cpu.accesses[i].address =
                    (Mem(hist[1].pre, hist[1].address + 1)
                       + 256 * Mem(hist[1].pre, hist[1].address + 2)
                       + AbsoluteIndex(hist[1].pre, hist[1].byte)) % 65536

\* The register a store opcode names.
Stored(c, opcode) ==
    CASE opcode \in {134, 150, 142} -> c.registers.x
      [] opcode \in {132, 148, 140} -> c.registers.y
      [] OTHER -> c.registers.ac

\* C26.  Stores have one flag policy: a store writes the named register's
\* value, changes no register but PC and neither Carry nor Overflow, and
\* leaves Negative and Zero as every other store opcode leaves them when run
\* in its place on a processor whose accumulator, X and Y hold one value.
C26_StoreFlagPolicy ==
    Ran(1, StoreOpcodes) =>
        LET pre == hist[1].pre
        IN  /\ ~cpu.panicked
            /\ \E i \in 2..Len(cpu.accesses) :
                  /\ cpu.accesses[i].kind = "write"
                  /\ Mem(cpu, cpu.accesses[i].address) = Stored(pre, hist[1].byte)
            /\ cpu.registers.ac = pre.registers.ac
            /\ cpu.registers.x = pre.registers.x
            /\ cpu.registers.y = pre.registers.y
            /\ cpu.registers.sp = pre.registers.sp
            /\ cpu.registers.sr.carry = pre.registers.sr.carry
            /\ cpu.registers.sr.overflow = pre.registers.sr.overflow
            /\ (pre.registers.ac = pre.registers.x /\ pre.registers.x = pre.registers.y)
               => \A other \in StoreOpcodes :
                     LET ran == run_iteration(Clear(load(pre, hist[1].address, <<other>>)))
                     IN  /\ ran.registers.sr.negative = cpu.registers.sr.negative
                         /\ ran.registers.sr.zero = cpu.registers.sr.zero

\* The effective address of a Zeropage, ZeropageX, Absolute or AbsoluteX
\* opcode (bits bbb = 001, 101, 011, 111) at `at` in processor c.
EffectiveAddress(c, at, opcode) ==
    LET lo  == Mem(c, at + 1)
        hi  == Mem(c, at + 2)
        bbb == (opcode \div 4) % 8
    IN  CASE bbb = 1 -> lo
          [] bbb = 5 -> (lo + c.registers.x) % 256
          [] bbb = 3 -> lo + 256 * hi
          [] bbb = 7 -> (lo + 256 * hi + c.registers.x) % 65536

\* What ASL, ROL, LSR and ROR (bits aaa = 000, 001, 010, 011) make of byte v
\* with carry c: the result and the carry out.
Shifted(opcode, v, c) ==
    LET aaa == (opcode \div 32) % 4
    IN  CASE aaa = 0 -> [res |-> (2 * v) % 256, carry |-> v >= 128]
          [] aaa = 1 -> [res |-> (2 * v + BoolToU8(c)) % 256, carry |-> v >= 128]
          [] aaa = 2 -> [res |-> v \div 2, carry |-> v % 2 = 1]
          [] aaa = 3 -> [res |-> v \div 2 + 128 * BoolToU8(c), carry |-> v % 2 = 1]

\* C27.  Memory-form shift and rotate write back: after one step of ASL,
\* LSR, ROL or ROR on memory the cell at the effective address holds the
\* shifted value, no other cell has changed, the accumulator is unchanged
\* and Negative and Zero come from the written value.
C27_ShiftWriteBack ==
    Ran(1, MemoryShiftOpcodes) =>
        LET pre == hist[1].pre
            E   == EffectiveAddress(pre, hist[1].address, hist[1].byte)
            new == Shifted(hist[1].byte, Mem(pre, E), pre.registers.sr.carry).res
        IN  /\ ~cpu.panicked
            /\ Mem(cpu, E) = new
            /\ Changed(pre, cpu) \subseteq {E}
            /\ cpu.registers.ac = pre.registers.ac
            /\ cpu.registers.sr.negative = (new >= 128)
            /\ cpu.registers.sr.zero = (new = 0)

\* C28.  Shift and rotate carry: ASL leaves Carry = bit 7 of its input and
\* LSR bit 0; ROL and ROR leave Carry = the bit rotated out and, on the
\* accumulator, the old Carry in the vacated bit.
C28_ShiftCarry ==
    /\ Ran(1, AccumulatorShiftOpcodes) =>
          LET pre == hist[1].pre
              s   == Shifted(hist[1].byte, pre.registers.ac, pre.registers.sr.carry)
          IN  /\ cpu.registers.sr.carry = s.carry
              /\ hist[1].byte \in {42, 106} => cpu.registers.ac = s.res
    /\ Ran(1, MemoryShiftOpcodes) =>
          LET pre == hist[1].pre
              E   == EffectiveAddress(pre, hist[1].address, hist[1].byte)
          IN  cpu.registers.sr.carry =
                 Shifted(hist[1].byte, Mem(pre, E), pre.registers.sr.carry).carry

\* C29.  Accumulator-form shift and rotate frame: one step of ASL A, LSR A,
\* ROL A or ROR A at any PC, PC = 0 included, does not fault and changes no
\* memory cell and none of X, Y and the stack pointer.
C29_AccumulatorFrame ==
    Ran(1, AccumulatorShiftOpcodes) =>
        LET pre == hist[1].pre
        IN  /\ ~cpu.panicked
            /\ Changed(pre, cpu) = {}
            /\ cpu.registers.x = pre.registers.x
            /\ cpu.registers.y = pre.registers.y
            /\ cpu.registers.sp = pre.registers.sp
            /\ cpu.stack = pre.stack
            /\ \A f \in FlagNames \ {"negative", "zero", "carry"} :
                  cpu.registers.sr[f] = pre.registers.sr[f]

\* C30.  INC and DEC read, modify and write one cell: the cell at the
\* effective address holds its old value plus or minus 1 modulo 256, no
\* other cell has changed, and Negative and Zero come from the new value.
C30_IncDec ==
    Ran(1, IncDecOpcodes) =>
        LET pre == hist[1].pre
            E   == EffectiveAddress(pre, hist[1].address, hist[1].byte)
            new == IF hist[1].byte >= 224 THEN (Mem(pre, E) + 1) % 256
                   ELSE (Mem(pre, E) + 255) % 256
        IN  /\ ~cpu.panicked
            /\ Mem(cpu, E) = new
            /\ Changed(pre, cpu) \subseteq {E}
            /\ cpu.registers.sr.negative = (new >= 128)
            /\ cpu.registers.sr.zero = (new = 0)

\* The addressing mode DEC and INC read through, per opcode
ReadMode(opcode) ==
    CASE opcode \in {198, 230} -> "Zeropage"
      [] opcode \in {214, 246} -> "ZeropageX"
      [] OTHER -> "Absolute"

\* How many bytes c2's PC is beyond c's
Advance(c, c2) == (c2.registers.pc - c.registers.pc) % 65536

\* The address of the last memory access of `c`
Accessed(c) == c.accesses[Len(c.accesses)].address

\* C31.  From the state an operation started in, and for every addressing
\* mode, Mode::get_memory and Mode::set_memory advance PC by the same number
\* of bytes, compute the same end address and access the same cell; and
\* where the operation was DEC or INC, the read resolution advanced PC by 2,
\* the number of decrement_pc calls between the read and the write.
C31_ResolverConsistency ==
    hist # << >> =>
        LET pre == Clear(Last.pre)
        IN  /\ \A mode \in Modes :
                  LET g == Mode_get_memory(pre, mode).cpu
                      s == Mode_set_memory(pre, mode, 0)
                  IN  /\ Advance(pre, g) = Advance(pre, s)
                      /\ get_memory_end_address(pre, mode).out
                            = set_memory_end_address(pre, mode).out
                      /\ Accessed(g) = Accessed(s)
            /\ (Last.op = "run" /\ Last.byte \in IncDecOpcodes) =>
                  Advance(pre, Mode_get_memory(pre, ReadMode(Last.byte)).cpu) = 2

\* The flag a flag instruction names and the value it is to leave in it
NamedFlag(opcode) ==
    CASE opcode \in {24, 56} -> "carry"
      [] opcode \in {88, 120} -> "interrupt"
      [] opcode = 184 -> "overflow"
      [] OTHER -> "decimal"

NamedValue(opcode) == opcode \in {56, 120, 248}

\* C32.  After CLC, CLI, CLD or CLV the named flag is false and after SEC,
\* SEI or SED it is true, whatever it was; the other seven flags, AC, X, Y,
\* SP, the stack and the memory are as before.
C32_FlagInstructions ==
    Ran(1, FlagInstructionOpcodes) =>
        LET pre == hist[1].pre
            f   == NamedFlag(hist[1].byte)
        IN  /\ ~cpu.panicked
            /\ cpu.registers.sr[f] = NamedValue(hist[1].byte)
            /\ \A g \in FlagNames \ {f} : cpu.registers.sr[g] = pre.registers.sr[g]
            /\ cpu.registers.ac = pre.registers.ac
            /\ cpu.registers.x = pre.registers.x
            /\ cpu.registers.y = pre.registers.y
            /\ cpu.registers.sp = pre.registers.sp
            /\ cpu.stack = pre.stack
            /\ cpu.memory = pre.memory

\* The register a transfer reads and the one it writes
TransferSource(opcode) ==
    CASE opcode \in {168, 170} -> "ac"
      [] opcode \in {138, 154} -> "x"
      [] opcode = 152 -> "y"
      [] OTHER -> "sp"

TransferDestination(opcode) ==
    CASE opcode \in {138, 152} -> "ac"
      [] opcode \in {170, 186} -> "x"
      [] opcode = 168 -> "y"
      [] OTHER -> "sp"

\* C33.  After a register transfer the destination holds what the source
\* held and the source is unchanged; TAX, TXA, TAY, TYA and TSX leave
\* Negative and Zero as the destination's value has them, and TXS leaves
\* every flag as it was.
C33_Transfers ==
    Ran(1, TransferOpcodes) =>
        LET pre == hist[1].pre
            src == TransferSource(hist[1].byte)
            dst == TransferDestination(hist[1].byte)
        IN  /\ ~cpu.panicked
            /\ cpu.registers[dst] = pre.registers[src]
            /\ cpu.registers[src] = pre.registers[src]
            /\ IF hist[1].byte = 154
               THEN cpu.registers.sr = pre.registers.sr
               ELSE /\ cpu.registers.sr.negative = (cpu.registers[dst] >= 128)
                    /\ cpu.registers.sr.zero = (cpu.registers[dst] = 0)

\* Everything of a processor but its PC and the access list
Rest(c) ==
    [memory |-> c.memory, stack |-> c.stack, panicked |-> c.panicked,
     ac |-> c.registers.ac, x |-> c.registers.x, y |-> c.registers.y,
     sr |-> c.registers.sr, sp |-> c.registers.sp]

\* C34.  One step on opcode 0xEA at address A leaves PC = (A + 1) mod 65536
\* and every other register, the flags, the stack and the memory as they
\* were; and k steps from the power-on state leave PC = k and all the rest
\* at its power-on value.
C34_Nop ==
    /\ (hist # << >> /\ Last.op = "run" /\ Last.byte = 234) =>
          /\ cpu.registers.pc = (Last.address + 1) % 65536
          /\ Rest(cpu) = Rest(Last.pre)
    /\ (hist # << >> /\ hist[1].pre = CPU_new) =>
          /\ cpu.registers.pc = Len(hist)
          /\ Rest(cpu) = Rest(CPU_new)

\* The opcodes of PHP, PLP, PHA, PLA, JSR, RTS, BRK and RTI
StackOpcodes == {8, 40, 72, 104, 32, 96, 0, 64}

\* The opcodes that write memory: the stores, DEC and INC, the shifts
WriteOpcodes ==
    StoreOpcodes \cup IncDecOpcodes \cup MemoryShiftOpcodes
    \cup AccumulatorShiftOpcodes

\* The processor after the i-th operation of the history
AfterOp(i) == IF i = Len(hist) THEN cpu ELSE hist[i + 1].pre

\* C35.  The stack and the memory are separate: a step on a push or pull
\* instruction (PHA, PHP, PLA, PLP, JSR, RTS, BRK, RTI) leaves every memory
\* cell as it was, and a step on an instruction that writes memory (a
\* store, DEC, INC, a shift) leaves every stack cell and the stack pointer
\* as they were.
C35_StackApart ==
    \A i \in 1..Len(hist) :
        hist[i].op = "run" =>
            /\ hist[i].byte \in StackOpcodes =>
                  AfterOp(i).memory = hist[i].pre.memory
            /\ hist[i].byte \in WriteOpcodes =>
                  /\ AfterOp(i).stack = hist[i].pre.stack
                  /\ AfterOp(i).registers.sp = hist[i].pre.registers.sp

\* The entries of the table whose opcode list holds `opcode`
Declaring(opcode) ==
    {i \in 1..Len(init_instructions) :
        contains(init_instructions[i].opcodes, opcode)}

\* The bytes more than one entry declares
SharedOpcodes == {o \in 0..255 : Cardinality(Declaring(o)) > 1}

\* The match of a scan of the table from its last entry to its first, 0 for
\* none
find_from_last(opcode) ==
    IF Declaring(opcode) = {} THEN 0
    ELSE CHOOSE i \in Declaring(opcode) : \A j \in Declaring(opcode) : i >= j

\* C36.  No byte is declared by two entries of the table, so the entry the
\* first-match scan of execute_instruction picks for a fetched byte is the
\* only entry declaring it, and a scan in the opposite order picks the same.
C36_DispatchDeterministic ==
    /\ SharedOpcodes = {}
    /\ (hist # << >> /\ Last.op = "run" /\ find(Last.byte) # 0) =>
          /\ Declaring(Last.byte) = {find(Last.byte)}
          /\ find_from_last(Last.byte) = find(Last.byte)

\* The instructions whose execute matches on the opcode, and their bytes
MatchingNames ==
    {"LDY", "CPY", "CPX", "ORA", "AND", "EOR", "ADC", "STA", "LDA", "CMP",
     "SBC", "LDX", "BIT", "STY", "ASL", "ROL", "LSR", "ROR", "STX", "DEC",
     "INC"}

MatchedOpcodes ==
    {o \in 0..255 :
        find(o) # 0 /\ init_instructions[find(o)].name \in MatchingNames}

\* The accesses of a step after its opcode fetch that read or wrote a cell
\* for the instruction: what an arm of the match does
ArmAccesses(c) ==
    {i \in 2..Len(c.accesses) : c.accesses[i].kind \in {"read", "write"}}

\* C37.  Every declared opcode has an arm in its routine's match: a step on
\* an opcode of an instruction that matches on it, when it completes, has
\* read or written memory for the instruction, and has not gone on with an
\* operand it never fetched.
C37_EveryOpcodeDecoded ==
    (hist # << >> /\ Last.op = "run" /\ Last.byte \in MatchedOpcodes
        /\ ~cpu.panicked) =>
        ArmAccesses(cpu) # {}

\* C38.  Memory reads are pure: get_memory_at_address(address) and
\* get_umemory_at_address(address) complete, return the content of the cell
\* at `address`, and leave the registers, PC included, the flags, the stack
\* and the memory as they were.
C38_ReadsPure ==
    (hist # << >> /\ Last.op \in {"get", "uget"}) =>
        /\ ~cpu.panicked
        /\ Last.address < MemLen
        /\ Last.out = Mem(Last.pre, Last.address)
        /\ cpu.registers = Last.pre.registers
        /\ cpu.stack = Last.pre.stack
        /\ cpu.memory = Last.pre.memory

\* C39.  The run loop never faults on a fetch: the opcode fetch of every
\* iteration is at a PC that indexes the memory, PC = 0xFFFF included, and
\* every cell the iteration reads is one too.
C39_FetchInBounds ==
    \A i \in 1..Len(hist) :
        hist[i].op = "run" =>
            /\ hist[i].address < MemLen
            /\ \A k \in 1..Len(AfterOp(i).accesses) :
                  AfterOp(i).accesses[k].kind \in {"read", "print"}
                      => AfterOp(i).accesses[k].address < MemLen

\* C40.  No self-deadlock on the memory lock: the thread never calls lock()
\* while it holds the guard, in the fetch of run or in a memory accessor
\* under execute_instruction, and no guard outlives the iteration or the
\* call that took it.
C40_NoSelfDeadlock ==
    /\ ~cpu.blocked
    /\ ~cpu.locked

(***************************************************************************)
(* States the program reaches: for each property, one case of it.          *)
(***************************************************************************)
\* 0x01 unpacked and packed again is 0x80.
C1_PackedAgain ==
    /\ Len(hist) = 2
    /\ hist[1].op = "from" /\ hist[1].byte = 1
    /\ hist[2].op = "into" /\ hist[2].out = 128

\* 0x80 unpacked sets no flag, Negative included.
C2_Unpacked ==
    /\ Len(hist) = 1
    /\ Last.op = "from" /\ Last.byte = 128
    /\ cpu.registers.sr = [f \in FlagNames |-> FALSE]

\* LDA #5; STA $10; LDA #0; LDA $10 has run: the accumulator holds 0x10, the
\* 0x05 went to address 3 and address 0x10 still holds the filler.
C3_ProgramRan ==
    /\ Len(hist) = 4
    /\ hist[1].pre = load(CPU_new, 0, StoreLoadProgram)
    /\ ~cpu.panicked
    /\ cpu.registers.ac = 16
    /\ ~cpu.registers.sr.zero
    /\ Mem(cpu, 3) = 5
    /\ Mem(cpu, 16) = Filler

\* CMP #5 at 0 with 5 in the accumulator has run: Zero is set, Carry clear.
C4_Compared ==
    /\ Ran(1, {201})
    /\ hist[1].address = 0
    /\ hist[1].pre.registers.ac = 5
    /\ Mem(hist[1].pre, 1) = 5
    /\ ~cpu.panicked
    /\ cpu.registers.sr.zero
    /\ ~cpu.registers.sr.carry

\* BEQ 0xFE at 0 with Zero set has run: PC is 0xFF83.
C5_Branched ==
    /\ Ran(1, {240})
    /\ hist[1].address = 0
    /\ hist[1].pre.registers.sr.zero
    /\ Mem(hist[1].pre, 1) = 254
    /\ ~cpu.panicked
    /\ cpu.registers.pc = 65411

\* JSR $0010 at 0 with SP = 0, then the RTS at 0x10, have run: PC is 0x0200.
C6_Returned ==
    /\ Ran(2, {32})
    /\ hist[1].address = 0
    /\ hist[1].pre.registers.sp = 0
    /\ Mem(hist[1].pre, 1) = 16 /\ Mem(hist[1].pre, 2) = 0
    /\ hist[2].address = 16 /\ hist[2].byte = 96
    /\ ~cpu.panicked
    /\ cpu.registers.pc = 512
    /\ cpu.registers.sp = 0

\* set_memory_at_address(0xFFFF, 5) has panicked.
C7_WriteFaulted ==
    /\ Len(hist) = 1
    /\ Last.op = "set" /\ Last.address = 65535 /\ Last.byte = 5
    /\ cpu.panicked

\* get_memory_at_address(0xFFFF) with PC = 0 has moved PC to 1 and read
\* address 1.
C8_ReadRedirected ==
    /\ Len(hist) = 1
    /\ Last.op = "get" /\ Last.address = 65535
    /\ Last.pre.registers.pc = 0
    /\ ~cpu.panicked
    /\ cpu.registers.pc = 1
    /\ cpu.accesses = <<[kind |-> "read", address |-> 1]>>

\* LDA zp,X (0xB5) at 0 with X = 0xFF has read address 0x100.
C9_ReadAbovePageZero ==
    /\ Ran(1, {181})
    /\ hist[1].address = 0
    /\ hist[1].pre.registers.x = 255
    /\ \E i \in 1..Len(cpu.accesses) :
          cpu.accesses[i] = [kind |-> "read", address |-> 256]

\* LDY #0x80 has run: Y is 0x80 and Negative is clear.
C10_Loaded ==
    /\ Ran(1, {160})
    /\ Mem(hist[1].pre, hist[1].address + 1) = 128
    /\ ~cpu.panicked
    /\ cpu.registers.y = 128
    /\ ~cpu.registers.sr.negative

\* increment_pc from 0xFFFF gave 0, and decrement_pc gave 0xFFFF back.
C11_WrappedAndBack ==
    /\ Len(hist) = 2
    /\ hist[1].op = "increment_pc" /\ hist[1].pre.registers.pc = 65535
    /\ hist[1].out = 0
    /\ hist[2].op = "decrement_pc" /\ hist[2].out = 65535
    /\ cpu.registers.pc = 65535

\* pull_from_stack with the stack pointer at 0 has moved it to 0xFE and
\* panicked on stack[0xFF].
C12_PullFaulted ==
    /\ Len(hist) = 1
    /\ Last.op = "pull"
    /\ Last.pre.registers.sp = 0
    /\ cpu.registers.sp = 254
    /\ cpu.panicked

\* INX ran, then the engine panicked on 0x4C with X still 2.
C13_StoppedOnUnknown ==
    /\ Len(hist) = 2
    /\ hist[1].byte = 232
    /\ Last.byte = 76
    /\ Last.address = 513
    /\ cpu.panicked
    /\ cpu.registers.x = 2
    /\ cpu.registers.pc = 513

\* A processor nothing has been called on yet.
C14_Constructed ==
    /\ hist = << >>
    /\ cpu.registers = Registers_new
    /\ Mem(cpu, 65534) = 234
    /\ Stk(cpu, 254) = 0

\* CMP absolute (CD 10 02) at 0x0200 has left the program counter at 0x0204.
C15_CompareOvershot ==
    /\ Ran(1, {205})
    /\ hist[1].address = 512
    /\ ~cpu.panicked
    /\ cpu.registers.pc = 516

\* NOP at 0xFFFE returned true and the engine has left the program counter
\* at 0x0000, two cells on.
C16_AdvancedTwice ==
    /\ Len(hist) = 1
    /\ Last.address = 65534
    /\ Last.byte = 234
    /\ Returned.ret
    /\ Returned.cpu.registers.pc = 65534
    /\ cpu.registers.pc = 0
    /\ ~cpu.panicked

\* From stack pointer 0, push 5 then pull has returned 0 with the pointer
\* back at 0 and the 5 still in stack[0].
C17_PulledOtherCell ==
    /\ Len(hist) = 2
    /\ hist[1].op = "push"
    /\ hist[1].byte = 5
    /\ hist[1].pre.registers.sp = 0
    /\ Last.op = "pull"
    /\ Last.out = 0
    /\ cpu.registers.sp = 0
    /\ Stk(cpu, 0) = 5
    /\ ~cpu.panicked

\* BPL at 0x0200 with the negative flag set has left the program counter at
\* 0x0203.
C18_SkippedThree ==
    /\ Ran(1, {16})
    /\ hist[1].address = 512
    /\ hist[1].pre.registers.sr.negative
    /\ cpu.registers.pc = 515
    /\ ~cpu.panicked

\* JSR $0203 (20 03 02) at 0x0000 has pushed 00, 02 and left the program
\* counter at 0x0003.
C19_JumpedBelow ==
    /\ Ran(1, {32})
    /\ hist[1].address = 0
    /\ Mem(hist[1].pre, 1) = 3
    /\ Mem(hist[1].pre, 2) = 2
    /\ hist[1].pre.registers.sp = 0
    /\ Stk(cpu, 0) = 0
    /\ Stk(cpu, 1) = 2
    /\ cpu.registers.pc = 3
    /\ ~cpu.panicked

\* BRK at 0x0200 with interrupt-disable set has pushed 02, 02 and the status
\* byte 04, cleared interrupt-disable and loaded 0x5678 from 0x0203.
C20_VectorAfterBreak ==
    /\ Ran(1, {0})
    /\ hist[1].address = 512
    /\ hist[1].pre.registers.sp = 0
    /\ hist[1].pre.registers.sr.interrupt
    /\ ~hist[1].pre.registers.sr.carry
    /\ Stk(cpu, 0) = 2
    /\ Stk(cpu, 1) = 2
    /\ Stk(cpu, 2) = 4
    /\ ~cpu.registers.sr.interrupt
    /\ cpu.registers.pc = 22136
    /\ ~cpu.panicked

\* BRK at 0x0200 with only carry set, then RTI at 0x1234: every flag is
\* clear, the stack pointer is back at 0 and the program counter is 0x0201.
C21_ReturnedElsewhere ==
    /\ Ran(2, {0})
    /\ hist[2].byte = 64
    /\ hist[2].address = 4660
    /\ hist[1].address = 512
    /\ hist[1].pre.registers.sp = 0
    /\ hist[1].pre.registers.sr.carry
    /\ ~hist[1].pre.registers.sr.negative
    /\ ~cpu.registers.sr.carry
    /\ cpu.registers.sp = 0
    /\ cpu.registers.pc = 513
    /\ ~cpu.panicked

\* PHA with the accumulator at 5 and then PLA: the accumulator holds 0, the
\* cell above the pushed 5, and Zero is set.
C22_PulledZero ==
    /\ hist # << >>
    /\ hist[1].op = "run"
    /\ Opcodes = <<72, 104>>
    /\ hist[1].pre.registers.ac = 5
    /\ hist[1].pre.registers.sp = 0
    /\ Stk(cpu, 0) = 5
    /\ cpu.registers.ac = 0
    /\ cpu.registers.sr.zero
    /\ ~cpu.panicked

\* ADC #$01 with the accumulator at 0xFF and carry clear: the accumulator
\* is 0 and Carry is still clear.
C23_CarryLost ==
    /\ Ran(1, {105})
    /\ hist[1].pre.registers.ac = 255
    /\ Mem(hist[1].pre, hist[1].address + 1) = 1
    /\ ~hist[1].pre.registers.sr.carry
    /\ cpu.registers.ac = 0
    /\ ~cpu.registers.sr.carry
    /\ ~cpu.panicked

\* LDA $80 (A5 80) at 0x0010 has read cells 0x10 and 0x11 only and loaded
\* the operand byte 0x80 itself.
C24_LoadedOperandByte ==
    /\ Ran(1, {165})
    /\ hist[1].address = 16
    /\ Mem(hist[1].pre, 17) = 128
    /\ cpu.accesses[1] = [kind |-> "read", address |-> 16]
    /\ cpu.accesses[2] = [kind |-> "read", address |-> 17]
    /\ \A i \in 1..Len(cpu.accesses) : cpu.accesses[i].address # 128
    /\ cpu.registers.ac = 128
    /\ ~cpu.panicked

\* LDA $0210 (AD 10 02) at 0x0400 has read cell 0x0000 after its operand and
\* never cell 0x0210.
C25_ReadCellZero ==
    /\ Ran(1, {173})
    /\ hist[1].address = 1024
    /\ Mem(hist[1].pre, 1025) = 16
    /\ Mem(hist[1].pre, 1026) = 2
    /\ cpu.accesses[4] = [kind |-> "read", address |-> 0]
    /\ \A i \in 1..Len(cpu.accesses) : cpu.accesses[i].address # 528
    /\ ~cpu.panicked

\* STX $0210 with 0x80 in the accumulator, X and Y has set Negative, and STA
\* $0210 in its place leaves Negative clear.
C26_StoreSetNegative ==
    /\ Ran(1, {142})
    /\ hist[1].address = 1024
    /\ hist[1].pre.registers.ac = 128
    /\ hist[1].pre.registers.x = 128
    /\ ~hist[1].pre.registers.sr.negative
    /\ cpu.registers.sr.negative
    /\ ~run_iteration(Clear(load(hist[1].pre, 1024, <<141>>))).registers.sr.negative
    /\ ~cpu.panicked

\* ASL $0210 (0E 10 02) at 0x0400 with 0x55 in cell 0x0210 has written 0xAA
\* over its own operand byte at 0x0401 and left cell 0x0210 at 0x55.
C27_WroteOperandCell ==
    /\ Ran(1, {14})
    /\ hist[1].address = 1024
    /\ Mem(hist[1].pre, 528) = 85
    /\ Mem(hist[1].pre, 1025) = 16
    /\ Mem(cpu, 528) = 85
    /\ Mem(cpu, 1025) = 170
    /\ ~cpu.panicked

\* ASL A at 0x0400 with the accumulator at 0x80: the accumulator is 0 and
\* Carry is clear.
C28_CarryNotShiftedOut ==
    /\ Ran(1, {10})
    /\ hist[1].address = 1024
    /\ hist[1].pre.registers.ac = 128
    /\ cpu.registers.ac = 0
    /\ ~cpu.registers.sr.carry
    /\ ~cpu.panicked

\* ASL A at 0x0000 has panicked on the cell below PC.
C29_FaultedAtZero ==
    /\ Ran(1, {10})
    /\ hist[1].address = 0
    /\ cpu.panicked

\* INC $0210 (EE 10 02) with X = 1 and 0x7F in cell 0x0210 has left that
\* cell at 0x7F and written 0x80 to cell 0x0211.
C30_WroteNextCell ==
    /\ Ran(1, {238})
    /\ hist[1].address = 1024
    /\ hist[1].pre.registers.x = 1
    /\ Mem(hist[1].pre, 528) = 127
    /\ Mem(hist[1].pre, 529) = 66
    /\ Mem(cpu, 528) = 127
    /\ Mem(cpu, 529) = 128
    /\ ~cpu.panicked


\* INC $FFFF at 0x0400 has run without a fault: the read moved PC three
\* bytes, the write took its operand from 0x0402 and 0x0403 and went to
\* 0xEAFF + X, and PC is 0x0404.
C31_ReadOvershot ==
    /\ Ran(1, {238})
    /\ Mem(hist[1].pre, 1025) = 255 /\ Mem(hist[1].pre, 1026) = 255
    /\ ~cpu.panicked
    /\ cpu.registers.pc = 1028
    /\ Changed(hist[1].pre, cpu) = {60159 + hist[1].pre.registers.x}

\* CLV has run with Overflow clear: Overflow is set.
C32_OverflowSetByClv ==
    /\ Ran(1, {184})
    /\ ~hist[1].pre.registers.sr.overflow
    /\ cpu.registers.sr.overflow

\* TXS has run with X = 0x81 and no flag set: SP is 0x81 and Negative is
\* set.
C33_TxsSetNegative ==
    /\ Ran(1, {154})
    /\ hist[1].pre.registers.x = 129
    /\ ~hist[1].pre.registers.sr.negative
    /\ cpu.registers.sp = 129
    /\ cpu.registers.sr.negative

\* NOP at 0xFFFD and NOP at 0xFFFE have run on untouched memory: PC is
\* 0x0000, not 0xFFFF, and nothing else has changed.
C34_NopPastTop ==
    /\ Len(hist) = 2
    /\ hist[1].address = 65533 /\ hist[1].byte = 234
    /\ hist[2].address = 65534 /\ hist[2].byte = 234
    /\ cpu.registers.pc = 0
    /\ Rest(cpu) = Rest(CPU_new)

\* PHA then STA $0210 have run: the push changed the stack and no memory
\* cell, the store changed a memory cell and neither the stack nor the
\* stack pointer.
C35_PushedThenStored ==
    /\ Len(hist) = 2
    /\ hist[1].byte = 72 /\ hist[2].byte = 141
    /\ hist[2].pre.stack # hist[1].pre.stack
    /\ hist[2].pre.memory = hist[1].pre.memory
    /\ cpu.memory # hist[2].pre.memory
    /\ cpu.stack = hist[2].pre.stack
    /\ cpu.registers.sp = hist[2].pre.registers.sp
    /\ ~cpu.panicked

\* LDA $10,X (0xB5) has run: it is the third byte of the 21st entry, LDA,
\* and of no other.
C36_PickedLda ==
    /\ Ran(1, {181})
    /\ find(181) = 21
    /\ init_instructions[21].name = "LDA"
    /\ Declaring(181) = {21}
    /\ cpu.accesses # << >>

\* CPX #$10 (E0 10) at 0x0200 with X = 0xFF has run: the step read memory
\* for the opcode fetch and for the print only, compared X with 0, and left
\* Carry and Zero clear, Negative set and PC at 0x0202.
C37_ComparedWithNothing ==
    /\ Ran(1, {224})
    /\ hist[1].address = 512
    /\ hist[1].pre.registers.x = 255
    /\ Mem(hist[1].pre, 513) = 16
    /\ ArmAccesses(cpu) = {}
    /\ ~cpu.registers.sr.carry /\ ~cpu.registers.sr.zero
    /\ cpu.registers.sr.negative
    /\ cpu.registers.pc = 514

\* set_memory_at_address(0x0001, 0x05) then get_umemory_at_address(0xFFFF)
\* from PC = 0: the read returned the 0x05 of cell 1 and left PC = 1.
C38_ReadMovedPc ==
    /\ Len(hist) = 2
    /\ hist[1].op = "set" /\ hist[1].address = 1 /\ hist[1].byte = 5
    /\ hist[1].pre.registers.pc = 0
    /\ hist[2].op = "uget" /\ hist[2].address = 65535
    /\ hist[2].out = 5
    /\ cpu.registers.pc = 1
    /\ ~cpu.panicked

\* From power-on with D0 82 at 0: BNE was taken to 0xFFFF and the fetch of
\* the next iteration has faulted there.
C39_FetchFaultedAtTop ==
    /\ Len(hist) = 2
    /\ hist[1].pre = load(CPU_new, 0, <<208, 130>>)
    /\ hist[2].op = "run" /\ hist[2].address = 65535
    /\ cpu.panicked
    /\ cpu.accesses = <<[kind |-> "read", address |-> 65535]>>

\* STA $0210 (8D 10 02) has run to its end: after the fetch of run the
\* routine read its operand bytes and wrote a cell, each access under a
\* guard of its own, and the mutex is free.
C40_StoredUnderOwnGuard ==
    /\ Ran(1, {141})
    /\ ~cpu.panicked /\ ~cpu.blocked /\ ~cpu.locked
    /\ \E i \in 2..Len(cpu.accesses) : cpu.accesses[i].kind = "write"
    /\ cpu.accesses[1] = [kind |-> "read", address |-> hist[1].address]
=============================================================================
